---------------------------- MODULE Spec2Model ----------------------------
(***************************************************************************)
(* Veridian workout tracker: the data-consistency engine (mergeData in the *)
(* Settings component) and the session-lifecycle controller of App.tsx.    *)
(*                                                                         *)
(* Conventions of the translation                                          *)
(*  - Date.now() is the variable now (milliseconds).  An ISO timestamp is  *)
(*    kept as the millisecond count it round-trips to.                     *)
(*  - Date.now().toString() ids are kept as the number; the sentinel id    *)
(*    'active' is the number 0 (Date.now() is never 0).                    *)
(*  - null / undefined of a number or string state is 0 / "" (the code     *)
(*    only tests them for truthiness); activeSession = null is Null.       *)
(*  - an optional field of a record is a field that is missing from the    *)
(*    record's DOMAIN, so {...a, ...b} is the function override Spread.    *)
(***************************************************************************)
EXTENDS Integers, Sequences, FiniteSets, TLC

VARIABLES
    now,                   \* Date.now(), milliseconds
    profiles,              \* useLocalStorage('workoutTrackerProfiles'): the in-memory array
    activeLocalProfileId,  \* useLocalStorage('activeLocalProfileId'); 0 is null
    isSignedIn,            \* useState(false)
    appData,               \* useState<AppData>
    settings,              \* useState<DefaultSettings>
    activeSession,         \* useState<WorkoutSession | null>
    lastActivityTime,      \* useState<number | null>; 0 is null
    editingSessionId,      \* useState<string | null>; 0 is null
    drive,                 \* the remote document: Null when the file does not exist
    effectReads,           \* readDataFromDrive() calls of the data effect still in flight
    driveWrites,           \* saveDataToDrive() calls still in flight, each a JSON snapshot
    sync,                  \* the handleSync call in progress, Null when there is none
    offlineAuthError,      \* useState<string | null>; "" is null
    syncStatus,            \* useState<SyncStatus>('idle')
    statusResets,          \* a setTimeout(() => setSyncStatus('idle')) is pending
    gestures,              \* how many gestures the user has made
    listBefore,            \* history: the session list when the active session listReset
                           \*   or, later, when the dataset under it was last loaded
    storedProfiles,        \* localStorage['workoutTrackerProfiles']: the JSON text last written
    fitSessions,           \* Google Fit: the sessions PUT by saveWorkoutSessionToFit
    backupFile,            \* the JSON file handleExport downloaded, Null before the first export
    dataAtExport,          \* history: the dataset in memory when backupFile was written
    mLocal,                \* mergeData: argument local
    mRemote,               \* mergeData: argument remote
    mMerged,               \* mergeData: the returned AppData (Null before the call)
    mSwapped,              \* mergeData(remote, local): the call with the arguments exchanged
    mPc,                   \* "input" before the call, "merged" after it, "off" in the app
    storedValue,           \* useLocalStorage: the state of the hook in each tab
    item,                  \* localStorage.getItem(key), Null when the key is absent
    storageEvents,         \* the storage events queued for each tab
    tabWrites              \* how many times a tab or another program has changed the storage

appVars   == <<now, profiles, activeLocalProfileId, isSignedIn, appData, settings,
               activeSession, lastActivityTime, editingSessionId, drive, effectReads,
               driveWrites, sync, offlineAuthError, gestures, listBefore,
               backupFile, dataAtExport, storedProfiles, fitSessions,
               syncStatus, statusResets>>
fileVars  == <<backupFile, dataAtExport>>
durableVars == <<storedProfiles, fitSessions>>
statusVars == <<syncStatus, statusResets>>
mergeVars == <<mLocal, mRemote, mMerged, mSwapped, mPc>>
tabVars   == <<storedValue, item, storageEvents, tabWrites>>
vars      == <<appVars, mergeVars, tabVars>>

Null == [null |-> TRUE]

(***************************************************************************)
(* Generic helpers for arrays.                                             *)
(***************************************************************************)
Range(s) == {s[i] : i \in 1..Len(s)}

\* {...a, ...b}
Spread(a, b) ==
    [k \in (DOMAIN a) \cup (DOMAIN b) |-> IF k \in DOMAIN b THEN b[k] ELSE a[k]]

\* new Date(x.timestamp || 0).getTime()
TimeKey(x) == IF "timestamp" \in DOMAIN x THEN x.timestamp ELSE 0

\* Array.prototype.sort((a,b) => time(b) - time(a)): stable, newest first
RECURSIVE InsertDesc(_, _)
InsertDesc(x, s) ==
    IF s = <<>> THEN <<x>>
    ELSE IF TimeKey(Head(s)) >= TimeKey(x) THEN <<Head(s)>> \o InsertDesc(x, Tail(s))
         ELSE <<x>> \o s

RECURSIVE SortDesc(_)
SortDesc(s) ==
    IF s = <<>> THEN <<>>
    ELSE InsertDesc(s[Len(s)], SortDesc(SubSeq(s, 1, Len(s) - 1)))

(***************************************************************************)
(* Reconciliation engine: mergeData.                                       *)
(***************************************************************************)
\* new Map(combined.map(item => [item.id, item])) then Array.from(map.values()):
\* a key keeps the position of its first occurrence and the value of its last
MapValuesKeepFirst(combined) ==
    LET pick[i \in 0..Len(combined)] ==
            IF i = 0 THEN <<>>
            ELSE IF \A j \in 1..(i - 1) : combined[j].id # combined[i].id
                 THEN pick[i - 1] \o <<combined[i]>>
                 ELSE pick[i - 1]
    IN  pick[Len(combined)]

MapValues(combined) ==
    LET firstAt(i) == \A j \in 1..(i - 1) : combined[j].id # combined[i].id
        lastOf(i)  == CHOOSE j \in i..Len(combined) :
                          /\ combined[j].id = combined[i].id
                          /\ \A k \in (j + 1)..Len(combined) : combined[k].id # combined[i].id
        pick[i \in 0..Len(combined)] ==
            IF i = 0 THEN <<>>
            ELSE IF firstAt(i) THEN pick[i - 1] \o <<combined[lastOf(i)]>>
                 ELSE pick[i - 1]
    IN  pick[Len(combined)]

mergeByKeyKeepAll(localList, remoteList) ==
    SortDesc(localList \o remoteList)

mergeByKeyRemoteOnly(localList, remoteList) ==
    SortDesc(MapValues(remoteList))

mergeByKeyUnsorted(localList, remoteList) ==
    MapValues(localList \o remoteList)

mergeByKey(localList, remoteList) ==
    SortDesc(MapValues(localList \o remoteList))

mergeData(local, remote) ==
    [ sessions    |-> mergeByKey(local.sessions, remote.sessions),
      healthStats |-> mergeByKey(local.healthStats, remote.healthStats),
      routines    |-> mergeByKey(local.routines, remote.routines) ]

(***************************************************************************)
(* Entity model and program constants.                                     *)
(***************************************************************************)
ActiveId  == 0          \* the sentinel id 'active'
MinuteMs  == 60000      \* milliseconds per minute
DefaultSessionTimeout == 60

EmptyData == [sessions |-> <<>>, healthStats |-> <<>>, routines |-> <<>>]

DEFAULT_SETTINGS ==
    [ defaultWorkout |-> "Push-ups", defaultReps |-> 10, defaultWeight |-> 0,
      defaultUnit |-> "kg", sessionTimeout |-> DefaultSessionTimeout ]

\* hashPassword: SHA-256 as an opaque injective digest
\* a credential value is a pair: <<"sha256", x>> is the hex digest of x and
\* <<"text", x>> would be x itself
keepPlainText(password) == <<"text", password>>
hashPassword(password) == <<"sha256", password>>
verifyPassword(password, hash) == hashPassword(password) = hash

\* Math.round(x / d) for d > 0: halves round up
Round(x, d) == (2 * x + d) \div (2 * d)

(***************************************************************************)
(* Object identity of Exercise objects.  addExerciseToSession changes the  *)
(* sets field of an Exercise object in place, so an Exercise that is held  *)
(* in memory carries the identity oid of its object; two rows with the     *)
(* same oid are one object.  A JSON text (the remote document) holds       *)
(* values only: oid 0.                                                     *)
(***************************************************************************)
RowsOf(sessions) == UNION {Range(sessions[i].exercises) : i \in 1..Len(sessions)}

OidsOfData(d) == {r.oid : r \in RowsOf(d.sessions)}

OidsOfSession(s) == IF s = Null THEN {} ELSE {r.oid : r \in Range(s.exercises)}

OidsOfProfiles(ps) == UNION {OidsOfData(ps[i].appData) : i \in 1..Len(ps)}

\* the n-th object identity that is not in used
NthFree(used, n) ==
    CHOOSE x \in 1..(Cardinality(used) + n) :
        x \notin used /\ Cardinality((1..x) \ used) = n

\* JSON.stringify: the value of a dataset, without object identities
StripSession(s) ==
    [s EXCEPT !.exercises = [j \in 1..Len(@) |-> [@[j] EXCEPT !.oid = 0]]]
StripSessions(ss) == [i \in 1..Len(ss) |-> StripSession(ss[i])]
Strip(d) == [d EXCEPT !.sessions = StripSessions(@)]
StripProfiles(ps) == [i \in 1..Len(ps) |-> [ps[i] EXCEPT !.appData = Strip(@)]]

\* JSON.parse: every Exercise of the text becomes a new object
Parse(d, used) ==
    LET ss == d.sessions
        before[i \in 1..(Len(ss) + 1)] ==
            IF i = 1 THEN 0 ELSE before[i - 1] + Len(ss[i - 1].exercises)
    IN  [d EXCEPT !.sessions =
            [i \in 1..Len(ss) |->
                [ss[i] EXCEPT !.exercises =
                    [j \in 1..Len(@) |-> [@[j] EXCEPT !.oid = NthFree(used, before[i] + j)]]]]]

\* updatedExercises[i].sets += 1 on the object o, seen through every holder
SetIncrement == 1
BumpRows(rows, o) ==
    [j \in 1..Len(rows) |->
        IF rows[j].oid = o THEN [rows[j] EXCEPT !.sets = @ + SetIncrement] ELSE rows[j]]
BumpSession(s, o) == [s EXCEPT !.exercises = BumpRows(@, o)]
BumpData(d, o) == [d EXCEPT !.sessions = [i \in 1..Len(@) |-> BumpSession(@[i], o)]]
BumpProfiles(ps, o) ==
    [i \in 1..Len(ps) |-> [ps[i] EXCEPT !.appData = BumpData(@, o)]]

\* Object identities are names only: after every step the objects in memory are
\* renamed 1, 2, ... in the order in which the holders below list them
RowOids(rows) == [j \in 1..Len(rows) |-> rows[j].oid]

RECURSIVE SessionsOids(_)
SessionsOids(ss) ==
    IF ss = <<>> THEN <<>> ELSE RowOids(Head(ss).exercises) \o SessionsOids(Tail(ss))

RECURSIVE ProfilesOids(_)
ProfilesOids(ps) ==
    IF ps = <<>> THEN <<>>
    ELSE SessionsOids(Head(ps).appData.sessions) \o ProfilesOids(Tail(ps))

RenameRows(rows, f) == [j \in 1..Len(rows) |-> [rows[j] EXCEPT !.oid = f[@]]]
RenameSession(s, f) == [s EXCEPT !.exercises = RenameRows(@, f)]
RenameData(d, f) ==
    [d EXCEPT !.sessions = [i \in 1..Len(@) |-> RenameSession(@[i], f)]]

Canon(ps, data, session, snapshot) ==
    LET order == ProfilesOids(ps) \o SessionsOids(data.sessions)
                   \o (IF session = Null THEN <<>> ELSE RowOids(session.exercises))
                   \o (IF snapshot = Null THEN <<>> ELSE SessionsOids(snapshot.sessions))
        first(o) == CHOOSE k \in 1..Len(order) :
                        order[k] = o /\ \A j \in 1..(k - 1) : order[j] # o
        name == [o \in Range(order) |-> Cardinality({order[k] : k \in 1..first(o)})]
    IN  [ profiles |-> [i \in 1..Len(ps) |->
                          [ps[i] EXCEPT !.appData = RenameData(@, name)]],
          appData |-> RenameData(data, name),
          activeSession |-> IF session = Null THEN Null ELSE RenameSession(session, name),
          snapshot |-> IF snapshot = Null THEN Null ELSE RenameData(snapshot, name) ]

(***************************************************************************)
(* Bounds and inputs of the application specification.                     *)
(***************************************************************************)
MaxGestures == 5     \* the user makes at most this many gestures
MaxTicks    == 1     \* the clock is observed to advance at most this many times

StartTime == 10000
TickStep  == 60 * MinuteMs   \* the clock is next observed an hour later

\* what handleAddExerciseClick passes to onAddExercise: always sets: 1
AddedSets == 1
ExerciseInputs ==
    { [name |-> "Push-ups", sets |-> AddedSets, reps |-> 10, weight |-> 0, unit |-> "kg"],
      [name |-> "Squats",   sets |-> AddedSets, reps |-> 10, weight |-> 0, unit |-> "kg"] }

\* data left by earlier runs of the program
SeedSession1 ==
    [ id |-> 2000, timestamp |-> 1500, warmup |-> FALSE, equipment |-> "Bodyweight",
      notes |-> "", durationMinutes |-> 0,
      exercises |-> << [id |-> [n |-> "", t |-> 1500], name |-> "Push-ups", sets |-> 1,
                        reps |-> 10, weight |-> 0, unit |-> "kg", oid |-> 1] >> ]

SeedSession2 ==
    [ id |-> 2600, timestamp |-> 2500, warmup |-> FALSE, equipment |-> "Bodyweight",
      notes |-> "remote", durationMinutes |-> 0,
      exercises |-> << [id |-> [n |-> "", t |-> 2500], name |-> "Squats", sets |-> 1,
                        reps |-> 10, weight |-> 0, unit |-> "kg", oid |-> 0] >> ]

\* a routine saved from a session that held Push-ups at two weights
\* (SaveRoutineFromSessionModal keeps name, sets and reps of every row)
SeedRoutine ==
    [ id |-> 3000, name |-> "Morning",
      exercises |-> << [name |-> "Push-ups", sets |-> 1, reps |-> 10],
                       [name |-> "Push-ups", sets |-> 1, reps |-> 10] >> ]

SeedLocalData ==
    [sessions |-> <<SeedSession1>>, healthStats |-> <<>>, routines |-> <<SeedRoutine>>]

SeedRemoteData ==
    [sessions |-> <<SeedSession2>>, healthStats |-> <<>>, routines |-> <<SeedRoutine>>]

SeedProfile ==
    [ id |-> 1000, name |-> "alice", passwordHash |-> hashPassword("pw1"),
      securityCodeHash |-> hashPassword("CODE-CODE-CODE"),
      appData |-> SeedLocalData,
      settings |-> DEFAULT_SETTINGS ]

\* the hook of the tab specification while another specification runs
TabsOff ==
    /\ storedValue = <<>>
    /\ item = Null
    /\ storageEvents = <<>>
    /\ tabWrites = 0

\* the application state while the merge specification runs
AppOff ==
    /\ now = StartTime
    /\ profiles = <<>>
    /\ activeLocalProfileId = 0
    /\ isSignedIn = FALSE
    /\ appData = EmptyData
    /\ settings = DEFAULT_SETTINGS
    /\ activeSession = Null
    /\ lastActivityTime = 0
    /\ editingSessionId = 0
    /\ drive = Null
    /\ effectReads = 0
    /\ driveWrites = <<>>
    /\ sync = Null
    /\ offlineAuthError = ""
    /\ gestures = 0
    /\ listBefore = <<>>
    /\ backupFile = Null
    /\ dataAtExport = Null
    /\ storedProfiles = StripProfiles(profiles)
    /\ fitSessions = {}
    /\ syncStatus = "idle"
    /\ statusResets = FALSE

(***************************************************************************)
(* Inputs of the merge specification.                                      *)
(***************************************************************************)
MaxMergeLen == 2
MergeIds    == {100, 200, 300}
MergeTimes  == {1, 2}
MergeTags   == {"a", "b"}

MergeItems == [id : MergeIds, timestamp : MergeTimes, tag : MergeTags]

MergeShapes == UNION {[1..n -> MergeItems] : n \in 0..MaxMergeLen}

\* the three record kinds built from one shape
AsSession(x) ==
    [id |-> x.id, timestamp |-> x.timestamp, warmup |-> FALSE,
     equipment |-> "Bodyweight", notes |-> x.tag, exercises |-> <<>>]
AsHealthStat(x) ==
    [id |-> x.id, timestamp |-> x.timestamp, sleepHours |-> IF x.tag = "a" THEN 7 ELSE 8]
AsRoutine(x) ==
    [id |-> x.id, name |-> x.tag, exercises |-> <<>>]

DatasetOf(shape) ==
    [ sessions    |-> [i \in 1..Len(shape) |-> AsSession(shape[i])],
      healthStats |-> [i \in 1..Len(shape) |-> AsHealthStat(shape[Len(shape) + 1 - i])],
      routines    |-> [i \in 1..Len(shape) |-> AsRoutine(shape[i])] ]

InitMerge ==
    /\ AppOff
    /\ TabsOff
    /\ mLocal \in {DatasetOf(s) : s \in MergeShapes}
    /\ mRemote \in {DatasetOf(s) : s \in MergeShapes}
    /\ mMerged = Null
    /\ mSwapped = Null
    /\ mPc = "input"

Merge ==
    /\ mPc = "input"
    /\ mMerged' = mergeData(mLocal, mRemote)
    /\ mSwapped' = mergeData(mRemote, mLocal)
    /\ mPc' = "merged"
    /\ UNCHANGED <<mLocal, mRemote>>
    /\ UNCHANGED appVars
    /\ UNCHANGED tabVars

NextMerge == Merge

SpecMerge == InitMerge /\ [][NextMerge]_vars

(***************************************************************************)
(* The application: App.tsx and the Settings component.                    *)
(*                                                                         *)
(* A handler runs against the values of the render it was created in (the  *)
(* unprimed variables) and queues state updates; st collects the queued    *)
(* updates, Render commits them and runs the effects that the changed      *)
(* dependencies trigger.                                                   *)
(***************************************************************************)
Cur ==
    [ profiles |-> profiles, appData |-> appData, settings |-> settings,
      activeSession |-> activeSession, lastActivityTime |-> lastActivityTime,
      editingSessionId |-> editingSessionId, driveWrites |-> driveWrites,
      sync |-> sync, offlineAuthError |-> offlineAuthError,
      stored |-> storedProfiles, fit |-> fitSessions,
      syncStatus |-> syncStatus, statusResets |-> statusResets,
      profTouched |-> FALSE, listReset |-> FALSE ]

\* String.prototype.toLowerCase on the user names of the model
ToLowerCase(name) ==
    CASE name = "Alice" -> "alice"
      [] name = "ALICE" -> "alice"
      [] OTHER -> name

\* String.prototype.trim on the user names of the model
Trim(name) ==
    CASE name = " alice" -> "alice"
      [] OTHER -> name

\* profiles.find(p => p.id === id), Null when there is none
FindProfile(ps, id) ==
    IF id # 0 /\ \E i \in 1..Len(ps) : ps[i].id = id
    THEN ps[CHOOSE i \in 1..Len(ps) :
                ps[i].id = id /\ \A j \in 1..(i - 1) : ps[j].id # id]
    ELSE Null

\* profiles.find(p => p.name.toLowerCase() === username.toLowerCase())
FindProfileByName(ps, username) ==
    IF \E i \in 1..Len(ps) : ToLowerCase(ps[i].name) = ToLowerCase(username)
    THEN ps[CHOOSE i \in 1..Len(ps) :
                /\ ToLowerCase(ps[i].name) = ToLowerCase(username)
                /\ \A j \in 1..(i - 1) : ToLowerCase(ps[j].name) # ToLowerCase(username)]
    ELSE Null

\* the appData a handleSync call captured before its await
SnapshotOf(s) == IF s # Null /\ s.pc = "reading" THEN s.localData ELSE Null
WithSnapshot(s, d) == IF d = Null THEN s ELSE [s EXCEPT !.localData = d]

UsedOids ==
    OidsOfData(appData) \cup OidsOfProfiles(profiles) \cup OidsOfSession(activeSession)
        \cup (IF SnapshotOf(sync) = Null THEN {} ELSE OidsOfData(SnapshotOf(sync)))

\* the render gate: the main screens exist only when someone is logged in
MainScreen  == isSignedIn \/ activeLocalProfileId # 0
LoginScreen == ~MainScreen

\* useLocalStorage.setValue for the key 'workoutTrackerProfiles': the state is
\* set and the same value is written to localStorage as JSON
setProfiles(st, valueToStore) ==
    [st EXCEPT !.profiles = valueToStore, !.stored = StripProfiles(valueToStore)]

\* an updateLocalProfile that applies the updater to every profile
updateLocalProfileAll(st, updater, profileIdToUpdate) ==
    setProfiles(st, [i \in 1..Len(st.profiles) |-> updater[st.profiles[i]]])

\* setValue resolves an updater against storedValue, the profiles array of the
\* render that created the handler; no handler sets the profiles twice, so that
\* array is st.profiles, the objects of which carry the in-place changes
updateLocalProfile(st, updater, profileIdToUpdate) ==
    LET targetId == IF profileIdToUpdate # 0 THEN profileIdToUpdate
                    ELSE activeLocalProfileId
    IN  IF targetId = 0 THEN st
        ELSE [setProfiles(st, [i \in 1..Len(st.profiles) |->
                                  IF st.profiles[i].id = targetId
                                  THEN updater[st.profiles[i]]
                                  ELSE st.profiles[i]]) EXCEPT
               !.profTouched = @ \/ (targetId = activeLocalProfileId
                                     /\ FindProfile(profiles, targetId) # Null)]

\* a commit that stamps the duration and keeps the id the session has
finalSessionKeepsId(session) ==
    IF session.id = ActiveId
    THEN Spread(session, [durationMinutes |-> Round(now - session.timestamp, MinuteMs)])
    ELSE session

\* finishSession: the committed record
finalSessionWithId(session) ==
    LET finalSession ==
            IF session.id = ActiveId
            THEN Spread(session,
                        [durationMinutes |-> Round(now - session.timestamp, MinuteMs)])
            ELSE session
        newSessionId == IF finalSession.id = ActiveId THEN now ELSE finalSession.id
    IN  Spread(finalSession, [id |-> newSessionId])

\* finishSession.updateState
updateState(currentData, session) ==
    LET updatedSessions == SelectSeq(currentData.sessions, LAMBDA x : x.id # session.id)
    IN  [currentData EXCEPT
           !.sessions = SortDesc(updatedSessions \o <<finalSessionWithId(session)>>)]

\* saveWorkoutSessionToFit without the test of the duration
saveWorkoutSessionToFitAlways(st, session) ==
    LET startTime == session.timestamp
        endTime   == startTime + (IF "durationMinutes" \in DOMAIN session
                                  THEN session.durationMinutes ELSE 0) * MinuteMs
    IN  [st EXCEPT !.fit = {e \in @ : e.id # startTime}
                           \cup {[id |-> startTime, startTimeMillis |-> startTime,
                                   endTimeMillis |-> endTime]}]

\* fitService.saveWorkoutSessionToFit, the user being signed in: a session
\* without a positive duration is skipped, another one is PUT under the id made
\* of its start time (a PUT creates or replaces the session of that id)
saveWorkoutSessionToFit(st, session) ==
    IF \/ "durationMinutes" \notin DOMAIN session
       \/ session.durationMinutes = 0
       \/ session.durationMinutes <= 0
    THEN st
    ELSE LET startTime == session.timestamp
             endTime   == startTime + session.durationMinutes * MinuteMs
         IN  [st EXCEPT !.fit = {e \in @ : e.id # startTime}
                                \cup {[id |-> startTime, startTimeMillis |-> startTime,
                                        endTimeMillis |-> endTime]}]

finishSessionKeepsActive(st) ==
    IF activeSession = Null \/ activeLocalProfileId = 0 THEN st
    ELSE updateLocalProfile(st,
             [p \in Range(st.profiles) |->
                 [p EXCEPT !.appData = updateState(@, activeSession)]], 0)

finishSession(st) ==
    IF activeSession = Null THEN st
    ELSE IF Len(activeSession.exercises) = 0
    THEN [st EXCEPT !.activeSession = Null, !.editingSessionId = 0]
    ELSE LET saved ==
                 IF activeLocalProfileId # 0
                 THEN updateLocalProfile(st,
                          [p \in Range(st.profiles) |->
                              [p EXCEPT !.appData = updateState(@, activeSession)]], 0)
                 ELSE IF isSignedIn
                 THEN LET newAppData == updateState(appData, activeSession)
                      IN  saveWorkoutSessionToFit(
                              [st EXCEPT !.appData = newAppData,
                                         !.driveWrites = Append(@, [data |-> Strip(newAppData),
                                                                    bySync |-> FALSE])],
                              finalSessionWithId(activeSession))
                 ELSE st
         IN  [saved EXCEPT !.activeSession = Null, !.editingSessionId = 0]

startSession(st, session) ==
    LET st1 == IF activeSession # Null THEN finishSession(st) ELSE st
    IN  [st1 EXCEPT !.activeSession = session, !.lastActivityTime = now,
                    !.listReset = TRUE]

\* a handler that runs because the user clicked or typed
Gesture == gestures < MaxGestures /\ gestures' = gestures + 1

\* commit the queued updates, then the data effect of App.tsx (lines 268-294),
\* which runs when isSignedIn or the activeProfile object changed
Render(st, signedIn2, activeId2) ==
    LET prof    == FindProfile(st.profiles, activeId2)
        changed == \/ signedIn2 # isSignedIn
                   \/ st.profTouched
                   \/ /\ activeId2 # activeLocalProfileId
                      /\ (prof # Null \/ FindProfile(profiles, activeLocalProfileId) # Null)
        reads   == changed /\ signedIn2
        loads   == changed /\ ~signedIn2 /\ prof # Null
        resets  == changed /\ ~signedIn2 /\ prof = Null
        data    == IF loads THEN prof.appData ELSE IF resets THEN EmptyData ELSE st.appData
        mem     == Canon(st.profiles, data, st.activeSession, SnapshotOf(st.sync))
    IN  /\ isSignedIn' = signedIn2
        /\ activeLocalProfileId' = activeId2
        /\ profiles' = mem.profiles
        /\ appData' = mem.appData
        /\ activeSession' = mem.activeSession
        /\ sync' = WithSnapshot(st.sync, mem.snapshot)
        /\ settings' = IF loads THEN prof.settings
                       ELSE IF resets THEN DEFAULT_SETTINGS ELSE st.settings
        /\ effectReads' = IF reads THEN effectReads + 1 ELSE effectReads
        /\ lastActivityTime' = st.lastActivityTime
        /\ editingSessionId' = st.editingSessionId
        /\ driveWrites' = st.driveWrites
        /\ offlineAuthError' = st.offlineAuthError
        /\ storedProfiles' = st.stored
        /\ fitSessions' = st.fit
        /\ syncStatus' = IF reads THEN "syncing" ELSE st.syncStatus
        /\ statusResets' = st.statusResets
        /\ listBefore' = IF mem.activeSession = Null THEN <<>>
                         ELSE IF st.listReset \/ changed
                         THEN StripSessions(mem.appData.sessions)
                         ELSE listBefore
        /\ UNCHANGED <<now, drive, fileVars, mergeVars, tabVars>>

(***************************************************************************)
(* The clock.                                                              *)
(***************************************************************************)
Tick ==
    /\ now < StartTime + MaxTicks * TickStep
    /\ now' = now + TickStep
    /\ syncStatus' = IF statusResets THEN "idle" ELSE syncStatus
    /\ statusResets' = FALSE
    /\ UNCHANGED <<gestures, listBefore, profiles, activeLocalProfileId, isSignedIn, appData, settings,
                   activeSession, lastActivityTime, editingSessionId, drive,
                   effectReads, driveWrites, sync, offlineAuthError, fileVars, durableVars, mergeVars, tabVars>>

(***************************************************************************)
(* Authentication handlers.                                                *)
(***************************************************************************)
handleOfflineLoginTelling(username, password) ==
    /\ Gesture
    /\ LoginScreen
    /\ LET profile == FindProfileByName(profiles, username)
           cleared == [Cur EXCEPT !.offlineAuthError = ""]
       IN  IF profile = Null
           THEN Render([Cur EXCEPT !.offlineAuthError = "Unknown user."],
                       isSignedIn, activeLocalProfileId)
           ELSE IF verifyPassword(password, profile.passwordHash)
           THEN Render(cleared, FALSE, profile.id)
           ELSE Render([Cur EXCEPT !.offlineAuthError = "Invalid username or password."],
                       isSignedIn, activeLocalProfileId)

\* Login screen, offline form
handleOfflineLogin(username, password) ==
    /\ Gesture
    /\ LoginScreen
    /\ LET profile == FindProfileByName(profiles, username)
           cleared == [Cur EXCEPT !.offlineAuthError = ""]
           failed  == [Cur EXCEPT !.offlineAuthError = "Invalid username or password."]
       IN  IF profile = Null
           THEN Render(failed, isSignedIn, activeLocalProfileId)
           ELSE IF verifyPassword(password, profile.passwordHash)
           THEN Render(cleared, FALSE, profile.id)
           ELSE Render(failed, isSignedIn, activeLocalProfileId)

\* Login screen, Google button: the signIn callback with success = true
handleSignIn ==
    /\ Gesture
    /\ LoginScreen
    /\ Render([Cur EXCEPT !.offlineAuthError = ""], TRUE, 0)

\* handleSync up to its first await; isSignedIn is the value of the render
\* that created the handler
handleSyncStart(st, closureSignedIn, isInitialSync) ==
    IF ~closureSignedIn THEN st
    ELSE [st EXCEPT !.sync = [pc |-> "reading", localData |-> appData,
                              isInitialSync |-> isInitialSync],
                    !.syncStatus = "syncing"]


\* Settings screen, Google button (rendered only while !isSignedIn): the signIn
\* callback with success = true; its handleSync is the one of the render in
\* which the button was clicked
SettingsSignIn ==
    /\ Gesture
    /\ MainScreen
    /\ ~isSignedIn
    /\ Render(handleSyncStart(Cur, isSignedIn, TRUE), TRUE, activeLocalProfileId)

\* handleSync called in a render in which isSignedIn is true and no sync is running
handleSync(isInitialSync) ==
    /\ Gesture
    /\ MainScreen
    /\ isSignedIn
    /\ sync = Null
    /\ Render(handleSyncStart(Cur, isSignedIn, isInitialSync),
              isSignedIn, activeLocalProfileId)

\* Settings screen, "Sync Now" (disabled while isSyncing): handleSync()
SyncNow == handleSync(FALSE)

\* Settings screen, "Log Out" / "Sign Out"
handleLogOut ==
    /\ Gesture
    /\ MainScreen
    /\ Render([Cur EXCEPT !.offlineAuthError = "",
                           !.syncStatus = IF isSignedIn THEN "idle" ELSE @], FALSE, 0)

\* what the Login form can hand to the offline handlers
UserNames == {"alice", "Alice", " alice", "bob"}
Passwords == {"pw1", "wrong"}
SecurityCode == "CODE-CODE-CODE"

\* a registration that keeps the recovery code as text
handleOfflineRegisterKeepsCode(username, password) ==
    /\ Gesture
    /\ LoginScreen
    /\ LET newProfile ==
               [ id |-> now, name |-> Trim(username),
                 passwordHash |-> hashPassword(password),
                 securityCodeHash |-> keepPlainText(SecurityCode),
                 appData |-> EmptyData,
                 settings |-> DEFAULT_SETTINGS ]
       IN  IF \E i \in 1..Len(profiles) :
                  ToLowerCase(profiles[i].name) = ToLowerCase(username)
           THEN Render([Cur EXCEPT !.offlineAuthError = "Username already taken."],
                       isSignedIn, activeLocalProfileId)
           ELSE Render(setProfiles([Cur EXCEPT !.offlineAuthError = ""],
                                   Append(Cur.profiles, newProfile)),
                       isSignedIn, activeLocalProfileId)

\* Login screen, "Create Account" form
handleOfflineRegister(username, password) ==
    /\ Gesture
    /\ LoginScreen
    /\ LET newProfile ==
               [ id |-> now, name |-> Trim(username),
                 passwordHash |-> hashPassword(password),
                 securityCodeHash |-> hashPassword(SecurityCode),
                 appData |-> EmptyData,
                 settings |-> DEFAULT_SETTINGS ]
       IN  IF \E i \in 1..Len(profiles) :
                  ToLowerCase(profiles[i].name) = ToLowerCase(username)
           THEN Render([Cur EXCEPT !.offlineAuthError = "Username already taken."],
                       isSignedIn, activeLocalProfileId)
           ELSE Render(setProfiles([Cur EXCEPT !.offlineAuthError = ""],
                                   Append(Cur.profiles, newProfile)),
                       isSignedIn, activeLocalProfileId)

\* a securityCodeHash that is undefined (the field is optional in UserProfile)
NoDigest == <<"undefined", "">>

\* the value handleOfflinePasswordReset returns
PasswordResetResult(username, securityCode) ==
    LET profile == FindProfileByName(profiles, username)
    IN  IF profile = Null \/ profile.securityCodeHash = NoDigest
        THEN FALSE
        ELSE verifyPassword(securityCode, profile.securityCodeHash)

\* a reset that does not verify the recovery code
handleOfflinePasswordResetUnverified(username, securityCode, newPassword) ==
    /\ Gesture
    /\ LoginScreen
    /\ LET profile == FindProfileByName(profiles, username)
       IN  IF profile # Null
           THEN Render(updateLocalProfile(Cur,
                           [p \in Range(profiles) |->
                               [p EXCEPT !.passwordHash = hashPassword(newPassword)]],
                           profile.id),
                       isSignedIn, activeLocalProfileId)
           ELSE Render(Cur, isSignedIn, activeLocalProfileId)

\* a reset that uses the recovery code up
handleOfflinePasswordResetOnce(username, securityCode, newPassword) ==
    /\ Gesture
    /\ LoginScreen
    /\ LET profile == FindProfileByName(profiles, username)
       IN  IF PasswordResetResult(username, securityCode)
           THEN Render(updateLocalProfile(Cur,
                           [p \in Range(profiles) |->
                               [p EXCEPT !.passwordHash = hashPassword(newPassword),
                                         !.securityCodeHash = NoDigest]],
                           profile.id),
                       isSignedIn, activeLocalProfileId)
           ELSE Render(Cur, isSignedIn, activeLocalProfileId)

\* Login screen, password reset modal
handleOfflinePasswordReset(username, securityCode, newPassword) ==
    /\ Gesture
    /\ LoginScreen
    /\ LET profile == FindProfileByName(profiles, username)
       IN  IF PasswordResetResult(username, securityCode)
           THEN Render(updateLocalProfile(Cur,
                           [p \in Range(profiles) |->
                               [p EXCEPT !.passwordHash = hashPassword(newPassword)]],
                           profile.id),
                       isSignedIn, activeLocalProfileId)
           ELSE Render(Cur, isSignedIn, activeLocalProfileId)

\* Settings screen, "Delete Profile" (window.confirm answered yes)
handleDeleteActiveProfile ==
    /\ Gesture
    /\ MainScreen
    /\ activeLocalProfileId # 0
    /\ FindProfile(profiles, activeLocalProfileId) # Null
    /\ Render(setProfiles(Cur, SelectSeq(profiles,
                                         LAMBDA p : p.id # activeLocalProfileId)),
              isSignedIn, 0)

(***************************************************************************)
(* The remote document.                                                    *)
(***************************************************************************)
\* an onUpdateProfileData that leaves the dataset in memory as it is
onUpdateProfileDataKeeps(st, data) ==
    [st EXCEPT !.listReset = TRUE]

\* onUpdateProfileData: setAppData(prev => ({...prev, ...data}))
onUpdateProfileData(st, data) ==
    [st EXCEPT !.appData = Spread(@, data), !.listReset = TRUE]

\* the data effect's readDataFromDrive() resolves with the document
EffectReadDone ==
    /\ effectReads > 0
    /\ effectReads' = effectReads - 1
    /\ syncStatus' = "success"
    /\ statusResets' = TRUE
    /\ LET data == IF drive # Null THEN Parse(drive, UsedOids) ELSE appData
           mem  == Canon(profiles, data, activeSession, SnapshotOf(sync))
       IN  /\ profiles' = mem.profiles
           /\ appData' = mem.appData
           /\ activeSession' = mem.activeSession
           /\ sync' = WithSnapshot(sync, mem.snapshot)
           /\ listBefore' = IF activeSession = Null THEN <<>>
                            ELSE IF drive = Null THEN listBefore
                            ELSE StripSessions(mem.appData.sessions)
    /\ UNCHANGED <<gestures, now, activeLocalProfileId, isSignedIn, settings,
                   lastActivityTime, editingSessionId, drive,
                   driveWrites, offlineAuthError, fileVars, durableVars, mergeVars, tabVars>>

\* the data effect's readDataFromDrive() rejects
EffectReadFail ==
    /\ effectReads > 0
    /\ effectReads' = effectReads - 1
    /\ syncStatus' = "error"
    /\ statusResets' = TRUE
    /\ UNCHANGED <<gestures, listBefore, now, profiles, activeLocalProfileId, isSignedIn, appData, settings,
                   activeSession, lastActivityTime, editingSessionId, drive,
                   driveWrites, sync, offlineAuthError, fileVars, durableVars, mergeVars, tabVars>>

\* handleSync after await readDataFromDrive(); mergeConfirmed is the answer to
\* window.confirm of an initial sync
SyncReadDone(mergeConfirmed) ==
    /\ UNCHANGED gestures
    /\ sync # Null
    /\ sync.pc = "reading"
    /\ LET localData == sync.localData
           remoteData == IF drive # Null THEN Parse(drive, UsedOids) ELSE Null
           asked == /\ sync.isInitialSync
                    /\ (Len(localData.sessions) > 0 \/ Len(localData.healthStats) > 0)
           st0 == IF remoteData # Null /\ asked /\ ~mergeConfirmed
                  THEN onUpdateProfileData(Cur, remoteData)
                  ELSE Cur
           mergedData == mergeData(localData, remoteData)
           st1 == IF remoteData # Null
                  THEN [onUpdateProfileData(st0, mergedData) EXCEPT
                          !.driveWrites = Append(@, [data |-> Strip(mergedData),
                                                     bySync |-> TRUE])]
                  ELSE [st0 EXCEPT
                          !.driveWrites = Append(@, [data |-> Strip(localData),
                                                     bySync |-> TRUE])]
       IN  /\ (remoteData # Null /\ asked) \/ mergeConfirmed
           /\ Render([st1 EXCEPT !.sync = [pc |-> "saving"]],
                     isSignedIn, activeLocalProfileId)

\* handleSync: readDataFromDrive() rejects, the catch block runs
SyncReadFail ==
    /\ UNCHANGED gestures
    /\ sync # Null
    /\ sync.pc = "reading"
    /\ Render([Cur EXCEPT !.sync = Null, !.syncStatus = "error", !.statusResets = TRUE],
              isSignedIn, activeLocalProfileId)

\* a completed write after which handleSync reports an error
DriveWriteDoneSyncError(i) ==
    /\ i \in 1..Len(driveWrites)
    /\ drive' = driveWrites[i].data
    /\ driveWrites' = SubSeq(driveWrites, 1, i - 1) \o SubSeq(driveWrites, i + 1, Len(driveWrites))
    /\ sync' = IF driveWrites[i].bySync THEN Null ELSE sync
    /\ syncStatus' = IF driveWrites[i].bySync THEN "error" ELSE syncStatus
    /\ statusResets' = (driveWrites[i].bySync \/ statusResets)
    /\ UNCHANGED <<gestures, listBefore, now, profiles, activeLocalProfileId, isSignedIn, appData, settings,
                   activeSession, lastActivityTime, editingSessionId, effectReads,
                   offlineAuthError, fileVars, durableVars, mergeVars, tabVars>>

\* a saveDataToDrive() request reaches the remote store
DriveWriteDone(i) ==
    /\ i \in 1..Len(driveWrites)
    /\ drive' = driveWrites[i].data
    /\ driveWrites' = SubSeq(driveWrites, 1, i - 1) \o SubSeq(driveWrites, i + 1, Len(driveWrites))
    /\ sync' = IF driveWrites[i].bySync THEN Null ELSE sync
    /\ syncStatus' = IF driveWrites[i].bySync THEN "success" ELSE syncStatus
    /\ statusResets' = (driveWrites[i].bySync \/ statusResets)
    /\ UNCHANGED <<gestures, listBefore, now, profiles, activeLocalProfileId, isSignedIn, appData, settings,
                   activeSession, lastActivityTime, editingSessionId, effectReads,
                   offlineAuthError, fileVars, durableVars, mergeVars, tabVars>>

DriveWriteFailRollback(i) ==
    /\ i \in 1..Len(driveWrites)
    /\ driveWrites' = SubSeq(driveWrites, 1, i - 1) \o SubSeq(driveWrites, i + 1, Len(driveWrites))
    /\ sync' = IF driveWrites[i].bySync THEN Null ELSE sync
    /\ syncStatus' = IF driveWrites[i].bySync THEN "error" ELSE syncStatus
    /\ statusResets' = (driveWrites[i].bySync \/ statusResets)
    /\ appData' = EmptyData
    /\ UNCHANGED <<gestures, listBefore, now, profiles, activeLocalProfileId, isSignedIn, settings,
                   activeSession, lastActivityTime, editingSessionId, drive, effectReads,
                   offlineAuthError, fileVars, durableVars, mergeVars, tabVars>>

\* a saveDataToDrive() request is rejected
DriveWriteFail(i) ==
    /\ i \in 1..Len(driveWrites)
    /\ driveWrites' = SubSeq(driveWrites, 1, i - 1) \o SubSeq(driveWrites, i + 1, Len(driveWrites))
    /\ sync' = IF driveWrites[i].bySync THEN Null ELSE sync
    /\ syncStatus' = IF driveWrites[i].bySync THEN "error" ELSE syncStatus
    /\ statusResets' = (driveWrites[i].bySync \/ statusResets)
    /\ UNCHANGED <<gestures, listBefore, now, profiles, activeLocalProfileId, isSignedIn, appData, settings,
                   activeSession, lastActivityTime, editingSessionId, drive, effectReads,
                   offlineAuthError, fileVars, durableVars, mergeVars, tabVars>>

(***************************************************************************)
(* Session lifecycle handlers.                                             *)
(***************************************************************************)
\* WorkoutLogger, "Start Empty Session" (rendered only while !activeSession)
startEmptySession ==
    /\ Gesture
    /\ MainScreen
    /\ activeSession = Null
    /\ Render(startSession(Cur,
                  [ id |-> ActiveId, timestamp |-> now, name |-> "Workout - today",
                    warmup |-> FALSE, equipment |-> "Bodyweight", notes |-> "",
                    exercises |-> <<>> ]),
              isSignedIn, activeLocalProfileId)

existingExerciseIndexNever(rows, ex) == 0

\* findIndex over the (name, weight, unit, reps) tuple; 0 is -1
existingExerciseIndex(rows, ex) ==
    LET match(i) == /\ rows[i].name = ex.name /\ rows[i].weight = ex.weight
                    /\ rows[i].unit = ex.unit /\ rows[i].reps = ex.reps
    IN  IF \E i \in 1..Len(rows) : match(i)
        THEN CHOOSE i \in 1..Len(rows) : match(i) /\ \A j \in 1..(i - 1) : ~match(j)
        ELSE 0

\* WorkoutLogger, "Add Exercise"
addExerciseToSession(exercise) ==
    /\ Gesture
    /\ MainScreen
    /\ LET newExercise ==
               Spread(exercise, [id |-> [n |-> "", t |-> now], oid |-> NthFree(UsedOids, 1)])
       IN  IF activeSession = Null
           THEN Render(
                  [startSession(Cur,
                       [ id |-> ActiveId, timestamp |-> now, warmup |-> FALSE,
                         equipment |-> "Bodyweight", notes |-> "",
                         exercises |-> <<newExercise>> ])
                     EXCEPT !.lastActivityTime = now],
                  isSignedIn, activeLocalProfileId)
           ELSE LET idx == existingExerciseIndex(activeSession.exercises, newExercise)
                IN  IF idx > 0
                    THEN \* updatedExercises[idx].sets += 1 changes the object itself
                         LET o == activeSession.exercises[idx].oid
                             updatedExercises == BumpRows(activeSession.exercises, o)
                         IN  Render(
                               [Cur EXCEPT
                                  !.profiles = BumpProfiles(@, o),
                                  !.appData = BumpData(@, o),
                                  !.sync = IF SnapshotOf(@) = Null THEN @
                                           ELSE [@ EXCEPT !.localData = BumpData(@, o)],
                                  !.activeSession = Spread(BumpSession(@, o),
                                                           [exercises |-> updatedExercises]),
                                  !.lastActivityTime = now],
                               isSignedIn, activeLocalProfileId)
                    ELSE Render(
                           [Cur EXCEPT
                              !.activeSession =
                                  Spread(@, [exercises |-> Append(activeSession.exercises,
                                                                  newExercise)]),
                              !.lastActivityTime = now],
                           isSignedIn, activeLocalProfileId)

updateActiveSession(sessionUpdate) ==
    /\ activeSession # Null
    /\ Render([Cur EXCEPT !.activeSession = Spread(@, sessionUpdate),
                          !.lastActivityTime = now],
              isSignedIn, activeLocalProfileId)

\* activeSession?.exercises || []
ActiveRows == IF activeSession = Null THEN <<>> ELSE activeSession.exercises

\* the block with the session details is rendered only while the session has rows
DetailsShown == activeSession # Null /\ Len(ActiveRows) > 0

\* WorkoutLogger, notes field
UpdateNotes(text) ==
    /\ Gesture
    /\ MainScreen
    /\ DetailsShown
    /\ activeSession.notes # text
    /\ updateActiveSession([notes |-> text])

\* WorkoutLogger, the trash button of row i
handleRemoveExercise(i) ==
    /\ Gesture
    /\ MainScreen
    /\ DetailsShown
    /\ i \in 1..Len(activeSession.exercises)
    /\ LET id == activeSession.exercises[i].id
       IN  updateActiveSession(
               [exercises |-> SelectSeq(activeSession.exercises, LAMBDA x : x.id # id)])

\* WorkoutLogger, "Finish & Save Session" / "Update Session"
FinishClick ==
    /\ Gesture
    /\ MainScreen
    /\ DetailsShown
    /\ Render(finishSession(Cur), isSignedIn, activeLocalProfileId)

\* WorkoutLogger, "Cancel Edit" (rendered only while editing)
cancelActiveSession ==
    /\ Gesture
    /\ MainScreen
    /\ DetailsShown
    /\ activeSession.id # ActiveId
    /\ Render([Cur EXCEPT !.activeSession = Null, !.editingSessionId = 0],
              isSignedIn, activeLocalProfileId)

\* WorkoutHistory, the pencil button of session i
editSession(i) ==
    /\ Gesture
    /\ MainScreen
    /\ i \in 1..Len(appData.sessions)
    /\ LET sessionId == appData.sessions[i].id
           st1 == finishSession(Cur)
           sessionToEdit ==
               appData.sessions[CHOOSE k \in 1..Len(appData.sessions) :
                   /\ appData.sessions[k].id = sessionId
                   /\ \A j \in 1..(k - 1) : appData.sessions[j].id # sessionId]
       IN  Render([st1 EXCEPT !.editingSessionId = sessionId,
                              !.activeSession = sessionToEdit,
                              !.lastActivityTime = 0,
                              !.listReset = TRUE],
                  isSignedIn, activeLocalProfileId)

\* Dashboard / Routines, "Start" of routine i
startRoutine(i) ==
    /\ Gesture
    /\ MainScreen
    /\ i \in 1..Len(appData.routines)
    /\ LET routine == appData.routines[i]
           newSession ==
               [ id |-> ActiveId, timestamp |-> now, name |-> <<"Routine: ", routine.name>>,
                 warmup |-> FALSE, equipment |-> "Bodyweight", notes |-> "",
                 exercises |->
                     [j \in 1..Len(routine.exercises) |->
                         Spread(routine.exercises[j],
                                [ id |-> [n |-> routine.exercises[j].name, t |-> now],
                                  weight |-> settings.defaultWeight,
                                  unit |-> settings.defaultUnit,
                                  oid |-> NthFree(UsedOids, j) ])] ]
       IN  Render(startSession(Cur, newSession), isSignedIn, activeLocalProfileId)

\* the inactivity timer of App.tsx (lines 316-333) fires; the effect is re-armed
\* after every render, so its deadline is lastActivityTime + timeout
SessionTimeout ==
    /\ UNCHANGED gestures
    /\ activeSession # Null
    /\ lastActivityTime # 0
    /\ settings.sessionTimeout > 0
    /\ (settings.sessionTimeout * 60 * 1000) - (now - lastActivityTime) <= 0
    /\ Render(finishSession(Cur), isSignedIn, activeLocalProfileId)

(***************************************************************************)
(* Dataset handlers of App.tsx: history, routines, health log.             *)
(*                                                                         *)
(* Each handler builds an update function and applies it to the profile    *)
(* when a local profile is active, otherwise to appData with a write to    *)
(* the remote document when signed in, otherwise nowhere.                  *)
(***************************************************************************)
\* deleteSession.updateFunc
deleteSessionUpdate(currentData, sessionId) ==
    [currentData EXCEPT !.sessions = SelectSeq(@, LAMBDA x : x.id # sessionId)]

\* WorkoutHistory, the trash button of session i (window.confirm answered yes)
deleteSession(i) ==
    /\ Gesture
    /\ MainScreen
    /\ i \in 1..Len(appData.sessions)
    /\ LET sessionId == appData.sessions[i].id
           newAppData == deleteSessionUpdate(appData, sessionId)
           st == IF activeLocalProfileId # 0
                 THEN updateLocalProfile(Cur,
                          [p \in Range(profiles) |->
                              [p EXCEPT !.appData = deleteSessionUpdate(@, sessionId)]], 0)
                 ELSE IF isSignedIn
                 THEN [Cur EXCEPT !.appData = newAppData,
                                  !.driveWrites = Append(@, [data |-> Strip(newAppData),
                                                             bySync |-> FALSE])]
                 ELSE Cur
       IN  Render(st, isSignedIn, activeLocalProfileId)

\* saveRoutine.updateFunc; existingIndex 0 is -1
saveRoutineUpdate(currentData, routine) ==
    LET existingIndex ==
            IF \E k \in 1..Len(currentData.routines) : currentData.routines[k].id = routine.id
            THEN CHOOSE k \in 1..Len(currentData.routines) :
                     /\ currentData.routines[k].id = routine.id
                     /\ \A j \in 1..(k - 1) : currentData.routines[j].id # routine.id
            ELSE 0
    IN  [currentData EXCEPT
           !.routines = IF existingIndex > 0 THEN [@ EXCEPT ![existingIndex] = routine]
                        ELSE Append(@, routine)]

\* the routines the editor of Routines.tsx can hand to onSave: a new one, or
\* an existing one under a new name
RoutineInputs ==
    { [id |-> now, name |-> "Evening",
       exercises |-> << [name |-> "Squats", sets |-> 1, reps |-> 10] >>] }
    \cup { [appData.routines[i] EXCEPT !.name = "Renamed"] : i \in 1..Len(appData.routines) }

\* Routines, "Save" of the routine editor
saveRoutine(routine) ==
    /\ Gesture
    /\ MainScreen
    /\ LET newAppData == saveRoutineUpdate(appData, routine)
           st == IF activeLocalProfileId # 0
                 THEN updateLocalProfile(Cur,
                          [p \in Range(profiles) |->
                              [p EXCEPT !.appData = saveRoutineUpdate(@, routine)]], 0)
                 ELSE IF isSignedIn
                 THEN [Cur EXCEPT !.appData = newAppData,
                                  !.driveWrites = Append(@, [data |-> Strip(newAppData),
                                                             bySync |-> FALSE])]
                 ELSE Cur
       IN  Render(st, isSignedIn, activeLocalProfileId)

\* deleteRoutine.updateFunc
deleteRoutineUpdate(currentData, routineId) ==
    [currentData EXCEPT !.routines = SelectSeq(@, LAMBDA x : x.id # routineId)]

\* Routines, the trash button of routine i (window.confirm answered yes)
deleteRoutine(i) ==
    /\ Gesture
    /\ MainScreen
    /\ i \in 1..Len(appData.routines)
    /\ LET routineId == appData.routines[i].id
           newAppData == deleteRoutineUpdate(appData, routineId)
           st == IF activeLocalProfileId # 0
                 THEN updateLocalProfile(Cur,
                          [p \in Range(profiles) |->
                              [p EXCEPT !.appData = deleteRoutineUpdate(@, routineId)]], 0)
                 ELSE IF isSignedIn
                 THEN [Cur EXCEPT !.appData = newAppData,
                                  !.driveWrites = Append(@, [data |-> Strip(newAppData),
                                                             bySync |-> FALSE])]
                 ELSE Cur
       IN  Render(st, isSignedIn, activeLocalProfileId)

\* addHealthStat.updateFunc
addHealthStatUpdate(currentData, newStat) ==
    [currentData EXCEPT !.healthStats = Append(@, newStat)]

\* what the form of HealthTracker hands to onAddStat
HealthStatInputs == { [sleepHours |-> 8] }

\* HealthTracker, "Log Stats"
addHealthStat(stat) ==
    /\ Gesture
    /\ MainScreen
    /\ LET newStat == Spread(stat, [id |-> now, timestamp |-> now])
           newAppData == addHealthStatUpdate(appData, newStat)
           st == IF activeLocalProfileId # 0
                 THEN updateLocalProfile(Cur,
                          [p \in Range(profiles) |->
                              [p EXCEPT !.appData = addHealthStatUpdate(@, newStat)]], 0)
                 ELSE IF isSignedIn
                 THEN [Cur EXCEPT !.appData = newAppData,
                                  !.driveWrites = Append(@, [data |-> Strip(newAppData),
                                                             bySync |-> FALSE])]
                 ELSE Cur
       IN  Render(st, isSignedIn, activeLocalProfileId)

\* deleteHealthStat.updateFunc
deleteHealthStatUpdate(currentData, id) ==
    [currentData EXCEPT !.healthStats = SelectSeq(@, LAMBDA x : x.id # id)]

\* HealthTracker, the trash button of entry i (window.confirm answered yes)
deleteHealthStat(i) ==
    /\ Gesture
    /\ MainScreen
    /\ i \in 1..Len(appData.healthStats)
    /\ LET id == appData.healthStats[i].id
           newAppData == deleteHealthStatUpdate(appData, id)
           st == IF activeLocalProfileId # 0
                 THEN updateLocalProfile(Cur,
                          [p \in Range(profiles) |->
                              [p EXCEPT !.appData = deleteHealthStatUpdate(@, id)]], 0)
                 ELSE IF isSignedIn
                 THEN [Cur EXCEPT !.appData = newAppData,
                                  !.driveWrites = Append(@, [data |-> Strip(newAppData),
                                                             bySync |-> FALSE])]
                 ELSE Cur
       IN  Render(st, isSignedIn, activeLocalProfileId)

(***************************************************************************)
(* Settings: backup files.                                                 *)
(***************************************************************************)
DATA_KEYS == {"sessions", "healthStats", "routines", "settings"}

\* handlePersistSettings, which Settings receives as setSettings
handlePersistSettings(st, newSettings) ==
    updateLocalProfile([st EXCEPT !.settings = newSettings],
                       [p \in Range(st.profiles) |-> [p EXCEPT !.settings = newSettings]], 0)

\* what the user types into the "Session Timeout (minutes)" field, as parseInt
\* reads it (0 also stands for a text that is no number)
TypedTimeouts == {0, 1, 120}

\* Math.max(1, parseInt(e.target.value) || 60)
SessionTimeoutInput(typed) ==
    LET parsed == IF typed = 0 THEN 60 ELSE typed
    IN  IF parsed >= 1 THEN parsed ELSE 1

\* a change of the timeout that also counts as an activity
handleSettingChangeIsActivity(typed) ==
    /\ Gesture
    /\ MainScreen
    /\ Render([handlePersistSettings(Cur,
                   [settings EXCEPT !.sessionTimeout = SessionTimeoutInput(typed)])
                EXCEPT !.lastActivityTime = IF activeSession # Null THEN now ELSE @],
              isSignedIn, activeLocalProfileId)

\* Settings.handleSettingChange('sessionTimeout', ...): the onChange of the
\* "Session Timeout (minutes)" field
handleSettingChange(typed) ==
    /\ Gesture
    /\ MainScreen
    /\ Render(handlePersistSettings(Cur,
                  [settings EXCEPT !.sessionTimeout = SessionTimeoutInput(typed)]),
              isSignedIn, activeLocalProfileId)

\* ImportExportModal.handleExport: the object that is written to the file
dataToExport(selectedKeys) ==
    LET keys == {k \in selectedKeys :
                    k = "settings" \/ Len(appData[k]) > 0}
    IN  [k \in keys |-> IF k = "settings" THEN settings ELSE Strip(appData)[k]]

\* Settings, "Export Data", then "Export" in the modal
handleExport(selectedKeys) ==
    /\ Gesture
    /\ MainScreen
    /\ DOMAIN dataToExport(selectedKeys) # {}
    /\ backupFile' = dataToExport(selectedKeys)
    /\ dataAtExport' = Strip(appData)
    /\ UNCHANGED <<now, profiles, activeLocalProfileId, isSignedIn, appData, settings,
                   activeSession, lastActivityTime, editingSessionId, drive, effectReads,
                   driveWrites, sync, offlineAuthError, listBefore, durableVars, statusVars,
                   mergeVars, tabVars>>

\* Settings.handleDataImport
handleDataImport(st, data, newSettings) ==
    LET st1 == onUpdateProfileData(st, data)
    IN  IF newSettings # Null THEN handlePersistSettings(st1, newSettings) ELSE st1

\* Settings, "Import Data", the file chosen, then "Import" in the modal with
\* every key of the file selected (window.confirm answered yes)
handleImport ==
    /\ Gesture
    /\ MainScreen
    /\ backupFile # Null
    /\ LET importFileData == Parse(Spread(EmptyData, backupFile), UsedOids)
           dataToImport == [k \in (DOMAIN backupFile) \ {"settings"} |-> importFileData[k]]
           settingsToImport == IF "settings" \in DOMAIN backupFile
                               THEN backupFile.settings ELSE Null
       IN  Render(handleDataImport(Cur, dataToImport, settingsToImport),
                  isSignedIn, activeLocalProfileId)

(***************************************************************************)
(* The application specification.                                          *)
(***************************************************************************)
Init ==
    /\ now = StartTime
    /\ profiles = <<SeedProfile>>
    /\ activeLocalProfileId = 0
    /\ isSignedIn = FALSE
    /\ appData = EmptyData
    /\ settings = DEFAULT_SETTINGS
    /\ activeSession = Null
    /\ lastActivityTime = 0
    /\ editingSessionId = 0
    /\ drive \in {Null, SeedRemoteData}
    /\ effectReads = 0
    /\ driveWrites = <<>>
    /\ sync = Null
    /\ offlineAuthError = ""
    /\ gestures = 0
    /\ listBefore = <<>>
    /\ backupFile = Null
    /\ dataAtExport = Null
    /\ storedProfiles = StripProfiles(profiles)
    /\ fitSessions = {}
    /\ syncStatus = "idle"
    /\ statusResets = FALSE
    /\ mLocal = EmptyData
    /\ mRemote = EmptyData
    /\ mMerged = Null
    /\ mSwapped = Null
    /\ mPc = "off"
    /\ TabsOff

Next ==
    \/ Tick
    \/ \E u \in {"alice", "Alice"}, pw \in {"pw1", "wrong"} : handleOfflineLogin(u, pw)
    \/ handleSignIn
    \/ SettingsSignIn
    \/ SyncNow
    \/ handleLogOut
    \/ EffectReadDone
    \/ EffectReadFail
    \/ \E c \in BOOLEAN : SyncReadDone(c)
    \/ SyncReadFail
    \/ \E i \in 1..Len(driveWrites) : DriveWriteDone(i)
    \/ \E i \in 1..Len(driveWrites) : DriveWriteFail(i)
    \/ startEmptySession
    \/ \E ex \in ExerciseInputs : addExerciseToSession(ex)
    \/ UpdateNotes("PR")
    \/ \E i \in 1..Len(ActiveRows) : handleRemoveExercise(i)
    \/ FinishClick
    \/ cancelActiveSession
    \/ \E i \in 1..Len(appData.sessions) : editSession(i)
    \/ \E i \in 1..Len(appData.routines) : startRoutine(i)
    \/ SessionTimeout

Spec == Init /\ [][Next]_vars

(***************************************************************************)
(* The dataset specification: the program with the gestures that change    *)
(* or copy the dataset.                                                    *)
(***************************************************************************)
NextData ==
    \/ handleOfflineLogin("alice", "pw1")
    \/ handleSignIn
    \/ EffectReadDone
    \/ EffectReadFail
    \/ \E isInitialSync \in BOOLEAN : handleSync(isInitialSync)
    \/ \E c \in BOOLEAN : SyncReadDone(c)
    \/ SyncReadFail
    \/ \E i \in 1..Len(driveWrites) : DriveWriteDone(i)
    \/ \E i \in 1..Len(driveWrites) : DriveWriteFail(i)
    \/ \E ex \in ExerciseInputs : addExerciseToSession(ex)
    \/ FinishClick
    \/ \E i \in 1..Len(appData.sessions) : deleteSession(i)
    \/ \E r \in RoutineInputs : saveRoutine(r)
    \/ \E i \in 1..Len(appData.routines) : deleteRoutine(i)
    \/ \E stat \in HealthStatInputs : addHealthStat(stat)
    \/ \E i \in 1..Len(appData.healthStats) : deleteHealthStat(i)
    \/ \E keys \in {DATA_KEYS, DATA_KEYS \ {"settings"}} : handleExport(keys)
    \/ handleImport

SpecData == Init /\ [][NextData]_vars

(***************************************************************************)
(* The profile specification: the program with the gestures of the login   *)
(* screen and of the account section of Settings.                          *)
(***************************************************************************)
NextProfiles ==
    \/ Tick
    \/ \E u \in UserNames, pw \in Passwords : handleOfflineLogin(u, pw)
    \/ \E u \in UserNames, pw \in Passwords : handleOfflineRegister(u, pw)
    \/ \E u \in UserNames, code \in {SecurityCode, "AAAA-AAAA-AAAA"} :
           handleOfflinePasswordReset(u, code, "wrong")
    \/ handleLogOut
    \/ handleDeleteActiveProfile

SpecProfiles == Init /\ [][NextProfiles]_vars

(***************************************************************************)
(* The timer specification: the program with the clock, the session        *)
(* timeout setting and the gestures that keep a session active.            *)
(***************************************************************************)
NextTimer ==
    \/ Tick
    \/ handleOfflineLogin("alice", "pw1")
    \/ handleSignIn
    \/ SettingsSignIn
    \/ EffectReadDone
    \/ EffectReadFail
    \/ \E i \in 1..Len(driveWrites) : DriveWriteDone(i)
    \/ \E i \in 1..Len(driveWrites) : DriveWriteFail(i)
    \/ \E ex \in ExerciseInputs : addExerciseToSession(ex)
    \/ \E typed \in TypedTimeouts : handleSettingChange(typed)
    \/ FinishClick
    \/ SessionTimeout

SpecTimer == Init /\ [][NextTimer]_vars

(***************************************************************************)
(* The recovery specification: the login screen over a store that holds a  *)
(* profile with a recovery digest and a profile of an earlier version of   *)
(* the program that has none.                                              *)
(***************************************************************************)
LegacyProfile ==
    [ id |-> 900, name |-> "carol", passwordHash |-> hashPassword("pw1"),
      securityCodeHash |-> NoDigest,
      appData |-> EmptyData,
      settings |-> DEFAULT_SETTINGS ]

RecoveryNames == {"alice", "bob", "carol"}
RecoveryCodes == {SecurityCode, "AAAA-AAAA-AAAA"}

\* the user chooses a password that was not in use before: new1, then new2
NewPasswordFor(username) ==
    LET profile == FindProfileByName(profiles, username)
    IN  IF profile # Null /\ profile.passwordHash # hashPassword("pw1")
        THEN "new2" ELSE "new1"

InitRecovery ==
    /\ now = StartTime
    /\ profiles = <<SeedProfile, LegacyProfile>>
    /\ activeLocalProfileId = 0
    /\ isSignedIn = FALSE
    /\ appData = EmptyData
    /\ settings = DEFAULT_SETTINGS
    /\ activeSession = Null
    /\ lastActivityTime = 0
    /\ editingSessionId = 0
    /\ drive = Null
    /\ effectReads = 0
    /\ driveWrites = <<>>
    /\ sync = Null
    /\ offlineAuthError = ""
    /\ gestures = 0
    /\ listBefore = <<>>
    /\ backupFile = Null
    /\ dataAtExport = Null
    /\ storedProfiles = StripProfiles(profiles)
    /\ fitSessions = {}
    /\ syncStatus = "idle"
    /\ statusResets = FALSE
    /\ mLocal = EmptyData
    /\ mRemote = EmptyData
    /\ mMerged = Null
    /\ mSwapped = Null
    /\ mPc = "off"
    /\ TabsOff

NextRecovery ==
    \/ Tick
    \/ \E u \in RecoveryNames, pw \in {"pw1", "new1", "new2"} : handleOfflineLogin(u, pw)
    \/ \E pw \in Passwords : handleOfflineRegister("bob", pw)
    \/ \E u \in RecoveryNames, code \in RecoveryCodes :
           handleOfflinePasswordReset(u, code, NewPasswordFor(u))
    \/ handleLogOut
    \/ handleDeleteActiveProfile

SpecRecovery == InitRecovery /\ [][NextRecovery]_vars

(***************************************************************************)
(* The tab specification: the hook useLocalStorage for the key of the      *)
(* profile array, in two tabs that share one localStorage.  A value is     *)
(* the array of the ids of the profiles.                                   *)
(***************************************************************************)
Tabs         == {1, 2}
\* the key of the profile array (a record, as the key of an event may be null)
StorageKey   == [key |-> "workoutTrackerProfiles"]
initialValue == <<>>
TabProfileIds == {1, 2}
MaxTabWrites == 3

\* JSON.stringify and JSON.parse: the text of a value is not the value
JSONstringify(value) == [json |-> value]
JSONparse(text) == text.json

\* the lazy initializer of useState in useLocalStorage
LazyInitialState(stored) ==
    IF stored # Null THEN JSONparse(stored) ELSE initialValue

\* the storage events a change by document t queues in the other documents; a
\* change that leaves the storage as it was fires none (t = 0: another program)
QueueStorageEvents(t, key, newValue, changed) ==
    [u \in Tabs |->
        IF u # t /\ changed
        THEN Append(storageEvents[u], [key |-> key, newValue |-> newValue])
        ELSE storageEvents[u]]

TabWrite == tabWrites < MaxTabWrites /\ tabWrites' = tabWrites + 1

\* useLocalStorage.setValue in tab t, the updater already applied to the
\* storedValue of the tab
setValue(t, valueToStore) ==
    /\ TabWrite
    /\ storedValue' = [storedValue EXCEPT ![t] = valueToStore]
    /\ item' = JSONstringify(valueToStore)
    /\ storageEvents' = QueueStorageEvents(t, StorageKey, JSONstringify(valueToStore),
                                           item # JSONstringify(valueToStore))
    /\ UNCHANGED <<appVars, mergeVars>>

\* handleOfflineRegister in tab t: setProfiles(prev => [...prev, newProfile])
TabRegister(t, id) ==
    /\ id \notin Range(storedValue[t])
    /\ setValue(t, Append(storedValue[t], id))

\* handleDeleteActiveProfile in tab t: setProfiles(prev => prev.filter(...))
TabDeleteProfile(t, id) ==
    /\ id \in Range(storedValue[t])
    /\ setValue(t, SelectSeq(storedValue[t], LAMBDA x : x # id))

\* Settings.handleResetApp in tab t: localStorage.clear(), then the tab reloads
handleResetApp(t) ==
    /\ TabWrite
    /\ item' = Null
    /\ storedValue' = [storedValue EXCEPT ![t] = LazyInitialState(Null)]
    /\ storageEvents' = [QueueStorageEvents(t, Null, Null, item # Null) EXCEPT ![t] = <<>>]
    /\ UNCHANGED <<appVars, mergeVars>>

\* another program of the origin calls localStorage.removeItem(key)
ExternalRemoveItem ==
    /\ TabWrite
    /\ item # Null
    /\ item' = Null
    /\ storageEvents' = QueueStorageEvents(0, StorageKey, Null, TRUE)
    /\ UNCHANGED <<storedValue, appVars, mergeVars>>

\* a listener that appends what the event reports to what the tab holds
handleStorageChangeMerging(t) ==
    /\ storageEvents[t] # <<>>
    /\ LET e == Head(storageEvents[t])
           reported == IF e.newValue # Null THEN JSONparse(e.newValue) ELSE initialValue
       IN  storedValue' =
               [storedValue EXCEPT ![t] =
                   IF e.key = StorageKey
                   THEN @ \o SelectSeq(reported, LAMBDA x : x \notin Range(storedValue[t]))
                   ELSE @]
    /\ storageEvents' = [storageEvents EXCEPT ![t] = Tail(@)]
    /\ UNCHANGED <<item, tabWrites, appVars, mergeVars>>

\* useLocalStorage.handleStorageChange in tab t for the oldest queued event
handleStorageChange(t) ==
    /\ storageEvents[t] # <<>>
    /\ LET e == Head(storageEvents[t])
       IN  storedValue' =
               [storedValue EXCEPT ![t] =
                   IF e.key = StorageKey
                   THEN IF e.newValue # Null THEN JSONparse(e.newValue) ELSE initialValue
                   ELSE @]
    /\ storageEvents' = [storageEvents EXCEPT ![t] = Tail(@)]
    /\ UNCHANGED <<item, tabWrites, appVars, mergeVars>>

InitTabs ==
    /\ AppOff
    /\ mLocal = EmptyData
    /\ mRemote = EmptyData
    /\ mMerged = Null
    /\ mSwapped = Null
    /\ mPc = "off"
    /\ item \in {Null, JSONstringify(<<1>>)}
    /\ storedValue = [t \in Tabs |-> LazyInitialState(item)]
    /\ storageEvents = [t \in Tabs |-> <<>>]
    /\ tabWrites = 0

NextTabs ==
    \/ \E t \in Tabs, id \in TabProfileIds : TabRegister(t, id)
    \/ \E t \in Tabs, id \in TabProfileIds : TabDeleteProfile(t, id)
    \/ \E t \in Tabs : handleResetApp(t)
    \/ ExternalRemoveItem
    \/ \E t \in Tabs : handleStorageChange(t)

SpecTabs == InitTabs /\ [][NextTabs]_vars

(***************************************************************************)
(* Properties of the reconciliation engine (specification SpecMerge).      *)
(***************************************************************************)
Kinds == {"sessions", "healthStats", "routines"}
IdsOf(list) == {list[i].id : i \in 1..Len(list)}

\* the last record of list that carries id
LastWithId(list, id) ==
    list[CHOOSE i \in 1..Len(list) :
             list[i].id = id /\ \A j \in (i + 1)..Len(list) : list[j].id # id]

\* C1: for every entity type, the merged list carries exactly the ids that occur
\* in the local or the remote list, and carries each of them once
C1_MergeHoldsEveryIdOnce ==
    mPc = "merged" =>
        \A k \in Kinds :
            /\ IdsOf(mMerged[k]) = IdsOf(mLocal[k]) \cup IdsOf(mRemote[k])
            /\ Cardinality(IdsOf(mMerged[k])) = Len(mMerged[k])

\* a merge of two lists that share one id and differ in another
C1_Witness ==
    /\ mPc = "merged"
    /\ IdsOf(mLocal.sessions) \cap IdsOf(mRemote.sessions) # {}
    /\ IdsOf(mLocal.sessions) # IdsOf(mRemote.sessions)
    /\ Len(mMerged.sessions) = 2

\* C2: an id that occurs on both sides is carried by the merged list with the
\* remote side's record for it
C2_RemoteWinsOnCollision ==
    mPc = "merged" =>
        \A k \in Kinds :
            \A id \in IdsOf(mLocal[k]) \cap IdsOf(mRemote[k]) :
                LastWithId(mMerged[k], id) = LastWithId(mRemote[k], id)

\* a collision in which the two sides hold different records for the id
C2_Witness ==
    /\ mPc = "merged"
    /\ \E id \in IdsOf(mLocal.sessions) \cap IdsOf(mRemote.sessions) :
           /\ LastWithId(mLocal.sessions, id) # LastWithId(mRemote.sessions, id)
           /\ LastWithId(mMerged.sessions, id) = LastWithId(mRemote.sessions, id)

\* the two datasets hold no id with two different records
Agreeing(list1, list2) ==
    \A x \in Range(list1) \cup Range(list2), y \in Range(list1) \cup Range(list2) :
        x.id = y.id => x = y

\* C12 as stated: the two orders of the arguments give the same set of whole
\* records in every list
C12_MergeCommutesOnRecords ==
    mPc = "merged" =>
        \A k \in Kinds : Range(mMerged[k]) = Range(mSwapped[k])

\* C12: the two orders of the arguments give lists with the same ids and the
\* same length; the records are the same too when the arguments hold no id with
\* two different records
C12_MergeCommutesOnIds ==
    mPc = "merged" =>
        \A k \in Kinds :
            /\ IdsOf(mMerged[k]) = IdsOf(mSwapped[k])
            /\ Len(mMerged[k]) = Len(mSwapped[k])
            /\ Agreeing(mLocal[k], mRemote[k]) => Range(mMerged[k]) = Range(mSwapped[k])

\* a merge of lists that differ and collide: the two orders keep different records
C12_Witness ==
    /\ mPc = "merged"
    /\ IdsOf(mLocal.sessions) # IdsOf(mRemote.sessions)
    /\ ~Agreeing(mLocal.sessions, mRemote.sessions)
    /\ Range(mMerged.sessions) # Range(mSwapped.sessions)
    /\ IdsOf(mMerged.sessions) = IdsOf(mSwapped.sessions)

\* the ids of list are pairwise different
UniqueIds(list) == \A i, j \in 1..Len(list) : list[i].id = list[j].id => i = j

\* C13: merging a dataset whose ids are unique within each list with itself
\* gives the records of that dataset, each once
C13_MergeIdempotent ==
    (mPc = "merged" /\ mLocal = mRemote /\ \A k \in Kinds : UniqueIds(mLocal[k])) =>
        \A k \in Kinds :
            /\ Range(mMerged[k]) = Range(mLocal[k])
            /\ Len(mMerged[k]) = Len(mLocal[k])

\* a dataset of two sessions merged with itself
C13_Witness ==
    /\ mPc = "merged"
    /\ mLocal = mRemote
    /\ Len(mLocal.sessions) = 2
    /\ UniqueIds(mLocal.sessions)
    /\ Len(mMerged.sessions) = 2

(***************************************************************************)
(* Properties of the session lifecycle controller (specification Spec).    *)
(***************************************************************************)
ActiveNew     == activeSession # Null /\ activeSession.id = ActiveId
ActiveEditing == activeSession # Null /\ activeSession.id # ActiveId

\* the rows of list that are the commit of the session old
CommitsOf(list, old) ==
    {i \in 1..Len(list) :
        /\ list[i].id # ActiveId
        /\ "durationMinutes" \in DOMAIN list[i]
        /\ StripSession(list[i]) =
               StripSession(Spread(old, [id |-> list[i].id,
                                         durationMinutes |-> list[i].durationMinutes]))}

\* the steps that call finishSession
StartsAnother == \E i \in 1..Len(appData.routines) : startRoutine(i)
StartsEditing == \E i \in 1..Len(appData.sessions) : editSession(i)
CommitStep    == FinishClick \/ SessionTimeout \/ StartsAnother \/ StartsEditing

\* C3: a step that starts a new session while a new session with at least one
\* exercise is active leaves the old session, under a permanent id, in the
\* session list of the current dataset
C3_StartCommitsActiveSession ==
    [][ (ActiveNew /\ Len(ActiveRows) >= 1 /\ StartsAnother)
            => CommitsOf(appData'.sessions, activeSession) # {} ]_vars

\* C4: when the inactivity timer fires on a new session with at least one
\* exercise, the controller is idle afterwards and the session is in the session
\* list of the current dataset
C4_TimeoutCommitsSession ==
    [][ (ActiveNew /\ Len(ActiveRows) >= 1 /\ SessionTimeout)
            => /\ activeSession' = Null
               /\ CommitsOf(appData'.sessions, activeSession) # {} ]_vars

\* the session list that finishSession writes to
CommitTarget(ps, data) ==
    IF activeLocalProfileId # 0
    THEN IF FindProfile(ps, activeLocalProfileId) = Null THEN <<>>
         ELSE FindProfile(ps, activeLocalProfileId).appData.sessions
    ELSE data.sessions

\* C5: the commit of a new session with at least one exercise stores it with a
\* duration that is not negative and with an id that is not the sentinel and that
\* no other session of the list carries
C5_CommitStampsSession ==
    [][ (ActiveNew /\ Len(ActiveRows) >= 1 /\ MainScreen /\ CommitStep)
            => LET list == CommitTarget(profiles', appData')
               IN  \E i \in CommitsOf(list, activeSession) :
                       /\ list[i].durationMinutes >= 0
                       /\ \A j \in 1..Len(list) : j # i => list[j].id # list[i].id ]_vars

\* C6: the commit of an active session whose exercise list is empty leaves the
\* session list as it was when that session became active, whatever was added
\* or updated meanwhile, and a timer commit leaves the controller idle
C6_EmptyCommitLeavesList ==
    [][ (activeSession # Null /\ Len(ActiveRows) = 0 /\ CommitStep)
            => /\ listBefore = StripSessions(appData.sessions)
               /\ SessionTimeout => (activeSession' = Null
                                     /\ StripSessions(appData'.sessions) = listBefore) ]_vars

\* the rows of a session that carry the (name, weight, unit, reps) of ex
SameTuple(r, ex) ==
    r.name = ex.name /\ r.weight = ex.weight /\ r.unit = ex.unit /\ r.reps = ex.reps
Matching(rows, ex) == {i \in 1..Len(rows) : SameTuple(rows[i], ex)}
FirstMatching(rows, ex) ==
    CHOOSE i \in Matching(rows, ex) : \A j \in Matching(rows, ex) : i <= j
StripRows(rows) == [j \in 1..Len(rows) |-> [rows[j] EXCEPT !.oid = 0]]

\* C7: when addExercise is called for a tuple that the active session already
\* holds (as it does after a first call), the session afterwards holds exactly
\* one row for the tuple and that row's sets grew by the default set count
C7_RepeatedAddYieldsOneRow ==
    [][ \A ex \in ExerciseInputs :
          (activeSession # Null /\ Matching(ActiveRows, ex) # {}
             /\ addExerciseToSession(ex))
            => LET i == FirstMatching(ActiveRows, ex)
               IN  /\ Cardinality(Matching(activeSession'.exercises, ex)) = 1
                   /\ activeSession'.exercises[i].sets = ActiveRows[i].sets + AddedSets ]_vars

\* C7 as the code has it: a call for a tuple that the active session already
\* holds creates no row; it adds one set to the first row of that tuple and
\* leaves every other row, and the number of rows of the tuple, as they were
C7_RepeatedAddCreatesNoRow ==
    [][ \A ex \in ExerciseInputs :
          (activeSession # Null /\ Matching(ActiveRows, ex) # {}
             /\ addExerciseToSession(ex))
            => LET i == FirstMatching(ActiveRows, ex)
                   rows2 == activeSession'.exercises
               IN  /\ Len(rows2) = Len(ActiveRows)
                   /\ Matching(rows2, ex) = Matching(ActiveRows, ex)
                   /\ rows2[i].sets = ActiveRows[i].sets + SetIncrement
                   /\ \A j \in 1..Len(rows2) :
                          j # i => StripRows(rows2)[j] = StripRows(ActiveRows)[j] ]_vars

\* a session started from a routine with two rows of one tuple, after an add for
\* that tuple: the first row grew, the second is still there
C7_Witness ==
    /\ ActiveNew
    /\ Len(ActiveRows) = 2
    /\ \E ex \in ExerciseInputs : Matching(ActiveRows, ex) = {1, 2}
    /\ ActiveRows[1].sets = ActiveRows[2].sets + SetIncrement

\* C8: the inactivity timer never fires while a persisted session is being edited
C8_NoTimeoutWhileEditing ==
    [][ ~(ActiveEditing /\ SessionTimeout) ]_vars

\* C9: cancel leaves the controller idle and the session list, the edited
\* session included, as it was when the edit began
C9_CancelLeavesList ==
    [][ cancelActiveSession
            => /\ activeSession' = Null
               /\ StripSessions(appData'.sessions) = listBefore ]_vars

(***************************************************************************)
(* Properties of the sign-in reconciliation (specification Spec).          *)
(***************************************************************************)
\* C10: when the read that follows a cloud sign-in returns a remote dataset, the
\* in-memory dataset becomes the merge of what it was and the remote dataset,
\* and the remote store holds, or is being sent, that same dataset
C10_SignInMergesAndWritesBack ==
    [][ (EffectReadDone /\ drive # Null)
            => /\ Strip(appData') = Strip(mergeData(appData, drive))
               /\ \/ drive = Strip(appData')
                  \/ \E i \in 1..Len(driveWrites') :
                         driveWrites'[i].data = Strip(appData') ]_vars

C14_ImportRestoresSessions ==
    [][ (handleImport /\ "settings" \in DOMAIN backupFile /\ Strip(appData) = EmptyData)
          => StripSessions(appData'.sessions) = dataAtExport.sessions ]_vars

(***************************************************************************)
(* Properties of the profile store (specification SpecProfiles).           *)
(***************************************************************************)
\* C15: no two profiles of the store have names that are equal ignoring case
C15_NamesUniqueIgnoringCase ==
    \A i, j \in 1..Len(profiles) :
        ToLowerCase(profiles[i].name) = ToLowerCase(profiles[j].name) => i = j

\* a login attempt with a name that no profile carries
UnknownUser(u) == FindProfileByName(profiles, u) = Null

\* a login attempt with the name of a profile and a password that is not its own
WrongPassword(u, pw) ==
    /\ FindProfileByName(profiles, u) # Null
    /\ ~verifyPassword(pw, FindProfileByName(profiles, u).passwordHash)

\* C16: a login with an unknown user name and a login with a known name and a
\* wrong password leave the program in the same state: the same error value
\* and no active profile
C16_LoginFailuresAlike ==
    [][ \A u1 \in UserNames, u2 \in UserNames, p1 \in Passwords, p2 \in Passwords :
          (UnknownUser(u1) /\ WrongPassword(u2, p2) /\ handleOfflineLogin(u1, p1))
            => /\ handleOfflineLogin(u2, p2)
               /\ offlineAuthError' # ""
               /\ activeLocalProfileId' = 0 ]_vars

\* a failed login has been reported while the store holds a profile
C16_Witness ==
    /\ offlineAuthError = "Invalid username or password."
    /\ activeLocalProfileId = 0
    /\ profiles # <<>>

(***************************************************************************)
(* Properties of the modes and of the remote writes.                       *)
(***************************************************************************)
\* C17: a local profile is never active while the cloud sign-in is on
C17_AtMostOneMode ==
    ~(activeLocalProfileId # 0 /\ isSignedIn)

CloudMode == isSignedIn /\ activeLocalProfileId = 0

\* the step issues a write of the dataset that is in memory after it
WritesDataset ==
    /\ Len(driveWrites') = Len(driveWrites) + 1
    /\ driveWrites'[Len(driveWrites')].data = Strip(appData')

\* the handlers App.tsx gives to the screens for changing the dataset
HandlerMutation ==
    \/ FinishClick
    \/ \E i \in 1..Len(appData.sessions) : deleteSession(i)
    \/ \E r \in RoutineInputs : saveRoutine(r)
    \/ \E i \in 1..Len(appData.routines) : deleteRoutine(i)
    \/ \E stat \in HealthStatInputs : addHealthStat(stat)
    \/ \E i \in 1..Len(appData.healthStats) : deleteHealthStat(i)

\* C18: in cloud mode, every commit, delete, routine save or delete, health
\* entry add or delete, and every import, that changes the dataset in memory
\* issues a write of the full new dataset to the remote store
C18_CloudMutationIsWritten ==
    [][ (CloudMode /\ (HandlerMutation \/ handleImport) /\ Strip(appData') # Strip(appData))
          => WritesDataset ]_vars

\* C19: when a write to the remote store fails, the dataset in memory and the
\* session controller stay as the mutation left them; and a commit in cloud mode
\* returns the controller to idle in the step that issues the write
C19_FailedWriteKeepsMutation ==
    [][ /\ \A i \in 1..Len(driveWrites) :
               DriveWriteFail(i) => /\ appData' = appData
                                    /\ activeSession' = activeSession
        /\ (CloudMode /\ FinishClick) =>
               /\ activeSession' = Null
               /\ CommitsOf(appData'.sessions, activeSession) # {} ]_vars

\* the only write of the run, that of a health entry, has failed: the entry is
\* in memory and not in the remote document
C19_Witness ==
    /\ CloudMode
    /\ gestures = 2
    /\ driveWrites = <<>>
    /\ Len(appData.healthStats) = 1
    /\ drive # Null
    /\ drive.healthStats = <<>>

(***************************************************************************)
(* Properties of the inactivity timer (specification Spec).                *)
(***************************************************************************)
\* the timer of the current render has run out
TimerDue ==
    /\ activeSession # Null
    /\ lastActivityTime # 0
    /\ settings.sessionTimeout > 0
    /\ now - lastActivityTime >= settings.sessionTimeout * 60 * 1000

\* C20: the timer fires only for an active session, its step ends the session,
\* adds at most one session to the list it commits to (every profile, and the
\* dataset in memory when no profile is active) and issues at most one write;
\* after it, as after a finish or a cancel, no timer is due
C20_TimerFiresOnce ==
    [][ /\ SessionTimeout =>
               /\ activeSession # Null
               /\ activeSession' = Null
               /\ activeLocalProfileId = 0 =>
                      Len(appData'.sessions) <= Len(appData.sessions) + 1
               /\ Len(driveWrites') <= Len(driveWrites) + 1
               /\ \A i \in 1..Len(profiles) :
                      Len(profiles'[i].appData.sessions)
                          <= Len(profiles[i].appData.sessions) + 1
               /\ ~TimerDue'
        /\ (FinishClick \/ cancelActiveSession) => ~TimerDue' ]_vars

\* the timer has committed a session: the session is stored with the duration
\* of the timeout and no session is active
C20_Witness ==
    /\ activeSession = Null
    /\ lastActivityTime # 0
    /\ now - lastActivityTime >= settings.sessionTimeout * 60 * 1000
    /\ \E i \in 1..Len(appData.sessions) :
           /\ appData.sessions[i].id = now
           /\ appData.sessions[i].durationMinutes = DefaultSessionTimeout

(***************************************************************************)
(* C21  The durable map holds only digests of credentials.                 *)
(***************************************************************************)
ProfileFields == {"id", "name", "passwordHash", "securityCodeHash", "appData", "settings"}
IsDigest(h) == h[1] = "sha256"

\* C21: every profile written to localStorage has exactly the fields of a
\* UserProfile, and its passwordHash and securityCodeHash are digests; no
\* operation writes the text of a password or of a recovery code
C21_OnlyDigestsStored ==
    \A i \in 1..Len(storedProfiles) :
        /\ DOMAIN storedProfiles[i] = ProfileFields
        /\ IsDigest(storedProfiles[i].passwordHash)
        /\ IsDigest(storedProfiles[i].securityCodeHash)

\* a profile registered with password "pw1" and the seed profile after a reset of
\* its password to "wrong" are both in the store
C21_Witness ==
    /\ \E i \in 1..Len(storedProfiles) :
          /\ storedProfiles[i].name = "bob"
          /\ storedProfiles[i].passwordHash = hashPassword("pw1")
    /\ \E i \in 1..Len(storedProfiles) :
          /\ storedProfiles[i].name = "alice"
          /\ storedProfiles[i].passwordHash = hashPassword("wrong")

(***************************************************************************)
(* C22  The fitness log receives only sessions with a positive duration.   *)
(***************************************************************************)
\* C22: an entry enters the fitness log only in a step that commits the active
\* session, and only when the committed record has a durationMinutes that is
\* present and positive; the entry spans that duration from the session's start
C22_FitOnlyPositiveDuration ==
    [][ \A e \in fitSessions' \ fitSessions :
            /\ CommitStep
            /\ activeSession # Null
            /\ LET s == finalSessionWithId(activeSession)
               IN  /\ "durationMinutes" \in DOMAIN s
                   /\ s.durationMinutes > 0
                   /\ e.startTimeMillis = s.timestamp
                   /\ e.endTimeMillis = s.timestamp + s.durationMinutes * MinuteMs ]_vars

\* a session committed in cloud mode one hour after its start is in the log,
\* and a session committed with the duration 0 is in the list and not in the log
C22_Witness ==
    /\ CloudMode
    /\ \E i \in 1..Len(appData.sessions) :
          /\ appData.sessions[i].durationMinutes = 60
          /\ \E e \in fitSessions :
                /\ e.startTimeMillis = appData.sessions[i].timestamp
                /\ e.endTimeMillis = e.startTimeMillis + 60 * MinuteMs
    /\ \E i \in 1..Len(appData.sessions) :
          /\ appData.sessions[i].durationMinutes = 0
          /\ appData.sessions[i].timestamp = now
          /\ \A e \in fitSessions : e.startTimeMillis # now

(***************************************************************************)
(* C23  Editing a stored session while a session is active.                *)
(***************************************************************************)
\* C23: editSession on a stored session, while a session with at least one
\* exercise is active, leaves the session that was active in the session list
\* and makes the chosen session the active one, in editing mode
C23_EditCommitsActiveSession ==
    [][ \A i \in 1..Len(appData.sessions) :
            (activeSession # Null /\ Len(ActiveRows) >= 1 /\ editSession(i)) =>
                /\ CommitsOf(appData'.sessions, activeSession) # {}
                /\ activeSession' # Null
                /\ activeSession'.id = appData.sessions[i].id
                /\ editingSessionId' = appData.sessions[i].id ]_vars

(***************************************************************************)
(* C24  The commit of an edited session.                                   *)
(***************************************************************************)
\* the sessions of list other than the one with the given id, in their order
OtherSessions(list, id) == SelectSeq(StripSessions(list), LAMBDA x : x.id # id)

\* C24: the commit of an edited session with at least one exercise stores the
\* session under its id with the durationMinutes and the timestamp it has (no
\* duration is computed), as the only record of that id, and leaves the other
\* sessions and the length of the list as they were
C24_EditCommitReplaces ==
    [][ (ActiveEditing /\ Len(ActiveRows) >= 1 /\ CommitStep) =>
            /\ Len(appData'.sessions) = Len(appData.sessions)
            /\ OtherSessions(appData'.sessions, activeSession.id)
                   = OtherSessions(appData.sessions, activeSession.id)
            /\ \E k \in 1..Len(appData'.sessions) :
                   /\ StripSession(appData'.sessions[k]) = StripSession(activeSession)
                   /\ \A j \in 1..Len(appData'.sessions) :
                          appData'.sessions[j].id = activeSession.id => j = k ]_vars

(***************************************************************************)
(* C25  The order of the merged lists.                                     *)
(***************************************************************************)
\* list is ordered by timestamp, newest first
NewestFirst(list) ==
    \A i, j \in 1..Len(list) : i < j => list[i].timestamp >= list[j].timestamp

\* the ids of list in the order of their first occurrence
IdOrder(list) ==
    LET first == SelectSeq([i \in 1..Len(list) |-> [at |-> i, id |-> list[i].id]],
                           LAMBDA x : \A j \in 1..(x.at - 1) : list[j].id # x.id)
    IN  [i \in 1..Len(first) |-> first[i].id]

\* C25: the merged sessions and health entries are ordered by timestamp, newest
\* first; the merged routines are the local routines in their local order
\* followed by the routines that only the remote dataset holds, in their remote
\* order
C25_MergeOrder ==
    mPc = "merged" =>
        /\ NewestFirst(mMerged.sessions)
        /\ NewestFirst(mMerged.healthStats)
        /\ [i \in 1..Len(mMerged.routines) |-> mMerged.routines[i].id]
               = IdOrder(mLocal.routines)
                   \o IdOrder(SelectSeq(mRemote.routines,
                          LAMBDA r : r.id \notin IdsOf(mLocal.routines)))

\* a merge of one local routine with two routines only the remote holds, and of
\* sessions the merge had to reorder
C25_Witness ==
    /\ mPc = "merged"
    /\ Len(mLocal.routines) = 1
    /\ Len(mRemote.routines) = 2
    /\ Len(mMerged.routines) = 3
    /\ mMerged.routines[1] = mLocal.routines[1]
    /\ mMerged.sessions # mLocal.sessions \o mRemote.sessions

SignInReadPending == isSignedIn /\ effectReads > 0

\* C27: while the read that followed the cloud sign-in is pending, no step
\* issues a write to the remote store
C27_NoWriteBeforeRead ==
    [][ SignInReadPending => Len(driveWrites') <= Len(driveWrites) ]_vars

(***************************************************************************)
(* C28  A manual sync with a remote document.                              *)
(***************************************************************************)
\* the step in which a write issued by handleSync reaches the remote store
SyncWriteDone(i) == DriveWriteDone(i) /\ driveWrites[i].bySync

\* C28: when the read of a manual sync returns a document, the dataset in
\* memory becomes merge(dataset the sync started from, remote document) and a
\* write of that same dataset is issued; when the write reaches the remote store
\* and the dataset in memory is still the one written, the remote document and
\* the dataset in memory are equal
C28_SyncEqualizes ==
    [][ /\ (SyncReadDone(TRUE) /\ ~sync.isInitialSync /\ drive # Null) =>
               LET merged == Strip(mergeData(sync.localData, Parse(drive, UsedOids)))
               IN  /\ Strip(appData') = merged
                   /\ Len(driveWrites') = Len(driveWrites) + 1
                   /\ driveWrites'[Len(driveWrites')] = [data |-> merged, bySync |-> TRUE]
        /\ \A i \in 1..Len(driveWrites) :
               (SyncWriteDone(i) /\ Strip(appData) = driveWrites[i].data) =>
                   /\ drive' = driveWrites[i].data
                   /\ Strip(appData') = drive' ]_vars

\* a manual sync has merged a dataset that held a session of its own with the
\* remote document, which held another one; the write of the merged dataset is
\* on its way
C28_Witness ==
    /\ CloudMode
    /\ sync # Null
    /\ sync.pc = "saving"
    /\ drive # Null
    /\ Len(drive.sessions) = 1
    /\ Len(appData.sessions) = 2
    /\ \E i \in 1..Len(driveWrites) :
           driveWrites[i] = [data |-> Strip(appData), bySync |-> TRUE]

StoredDataset ==
    LET p == FindProfile(storedProfiles, activeLocalProfileId)
    IN  IF p = Null THEN Null ELSE p.appData

LocalMode == activeLocalProfileId # 0 /\ ~isSignedIn

\* C30: while a local profile is active, between handlers, the dataset in
\* memory equals the dataset stored in the active profile in localStorage
C30_MemoryEqualsStoredProfile ==
    LocalMode => Strip(appData) = StoredDataset

(***************************************************************************)
(* Properties of the hook in two tabs (specification SpecTabs).            *)
(***************************************************************************)
\* what the storage holds for the key, as a value
StoredNow == IF item # Null THEN JSONparse(item) ELSE initialValue

\* C31: when a tab handles a storage event for the key, its value becomes the
\* value the event reports, or the initial value when the event reports the
\* removal of the key, whatever the tab held before; an event for another key
\* leaves the value as it is
C31_ExternalChangeReplaces ==
    [][ \A t \in Tabs :
            handleStorageChange(t) =>
                LET e == Head(storageEvents[t])
                IN  /\ (e.key = StorageKey /\ e.newValue # Null) =>
                           storedValue'[t] = JSONparse(e.newValue)
                    /\ (e.key = StorageKey /\ e.newValue = Null) =>
                           storedValue'[t] = initialValue
                    /\ e.key # StorageKey => storedValue'[t] = storedValue[t] ]_vars

\* tab 1 wrote <<1>> and then received the <<2>> of tab 2: it holds <<2>> and
\* nothing of its own <<1>>
C31_Witness ==
    /\ mPc = "off"
    /\ tabWrites = 2
    /\ item = JSONstringify(<<2>>)
    /\ storedValue[1] = <<2>>
    /\ storedValue[2] = <<1>>
    /\ \A t \in Tabs : storageEvents[t] = <<>>

\* C40: when no storage event is pending, every tab holds the value that the
\* storage holds for the key
C40_TabsConverge ==
    (mPc = "off" /\ DOMAIN storageEvents = Tabs
        /\ \A t \in Tabs : storageEvents[t] = <<>>) =>
            \A t \in Tabs : storedValue[t] = StoredNow

(***************************************************************************)
(* Properties of authentication and recovery (specification SpecRecovery). *)
(***************************************************************************)
\* the profile store: the profiles in memory, their text in localStorage and
\* the id of the active profile
ProfileStore == <<profiles, storedProfiles, activeLocalProfileId>>

\* a reset for a profile that has no recovery digest
MissingDigest(u) ==
    /\ FindProfileByName(profiles, u) # Null
    /\ FindProfileByName(profiles, u).securityCodeHash = NoDigest

\* a reset for a profile with a digest that is not the digest of the code
WrongCode(u, code) ==
    /\ FindProfileByName(profiles, u) # Null
    /\ ~MissingDigest(u)
    /\ ~verifyPassword(code, FindProfileByName(profiles, u).securityCodeHash)

\* C32: a login with an unknown name or a wrong password, and a reset with an
\* unknown name, for a profile without recovery digest or with a wrong code,
\* leave the profiles, their stored text and the active profile id as they
\* were, and the reset returns false
C32_FailuresChangeNothing ==
    [][ /\ \A u \in RecoveryNames, pw \in {"pw1", "new1", "new2"} :
              (handleOfflineLogin(u, pw) /\ (UnknownUser(u) \/ WrongPassword(u, pw)))
                  => ProfileStore' = ProfileStore
        /\ \A u \in RecoveryNames, code \in RecoveryCodes :
              (/\ handleOfflinePasswordReset(u, code, NewPasswordFor(u))
               /\ (UnknownUser(u) \/ MissingDigest(u) \/ WrongCode(u, code)))
                  => /\ ~PasswordResetResult(u, code)
                     /\ ProfileStore' = ProfileStore ]_vars

\* a login has failed and a reset has given alice a new password: the store
\* holds that password and the profile without digest, and nobody is logged in
C32_Witness ==
    /\ offlineAuthError = "Invalid username or password."
    /\ activeLocalProfileId = 0
    /\ Len(profiles) = 2
    /\ profiles[1].passwordHash = hashPassword("new1")
    /\ profiles[2] = LegacyProfile
    /\ storedProfiles = StripProfiles(profiles)

\* the profiles with the passwordHash fields blanked
WithoutPasswordHash(ps) ==
    [i \in 1..Len(ps) |-> [ps[i] EXCEPT !.passwordHash = NoDigest]]

\* C33: a reset that succeeds gives the profile found by the name the digest
\* of the new password; the other fields of that profile, every other
\* profile, the active profile id, the dataset and the settings in memory
\* stay as they were
C33_ResetReplacesOneDigest ==
    [][ \A u \in RecoveryNames, code \in RecoveryCodes :
          (handleOfflinePasswordReset(u, code, NewPasswordFor(u))
              /\ PasswordResetResult(u, code))
            => /\ Len(profiles') = Len(profiles)
               /\ \A i \in 1..Len(profiles) :
                     IF profiles[i].id = FindProfileByName(profiles, u).id
                     THEN profiles'[i] =
                              [profiles[i] EXCEPT
                                  !.passwordHash = hashPassword(NewPasswordFor(u))]
                     ELSE profiles'[i] = profiles[i]
               /\ storedProfiles' = StripProfiles(profiles')
               /\ WithoutPasswordHash(storedProfiles') = WithoutPasswordHash(storedProfiles)
               /\ activeLocalProfileId' = activeLocalProfileId
               /\ appData' = appData
               /\ settings' = settings ]_vars

\* alice has a new password digest next to the recovery digest and the
\* dataset she had, and the profile of carol is as it was
C33_Witness ==
    /\ Len(profiles) = 2
    /\ profiles[1] = [SeedProfile EXCEPT !.passwordHash = hashPassword("new1")]
    /\ profiles[2] = LegacyProfile
    /\ storedProfiles = StripProfiles(profiles)

\* C34: after a reset that succeeded, a reset with the same name and the same
\* code would succeed again
C34_CodeStaysValid ==
    [][ \A u \in RecoveryNames, code \in RecoveryCodes :
          (handleOfflinePasswordReset(u, code, NewPasswordFor(u))
              /\ PasswordResetResult(u, code))
            => PasswordResetResult(u, code)' ]_vars

\* the password was reset twice (new1, then new2) and the code is still good
C34_Witness ==
    /\ FindProfileByName(profiles, "alice") # Null
    /\ FindProfileByName(profiles, "alice").passwordHash = hashPassword("new2")
    /\ PasswordResetResult("alice", SecurityCode)

(***************************************************************************)
(* Properties of the datasets at rest (specifications Spec and SpecData).  *)
(***************************************************************************)
\* the datasets that are kept: the one in memory, those of the profiles in
\* memory and in localStorage, the remote document and the documents on
\* their way to it
KeptDatasets ==
    {appData}
        \cup {profiles[i].appData : i \in 1..Len(profiles)}
        \cup {storedProfiles[i].appData : i \in 1..Len(storedProfiles)}
        \cup {driveWrites[i].data : i \in 1..Len(driveWrites)}
        \cup (IF drive = Null THEN {} ELSE {drive})

\* C35: no session of a kept dataset carries the sentinel id
C35_SentinelNeverPersisted ==
    \A d \in KeptDatasets : \A i \in 1..Len(d.sessions) : d.sessions[i].id # ActiveId

\* a session that began under the sentinel id has been committed in cloud
\* mode: it is in memory and in a document on its way to the remote store
C35_Witness ==
    /\ isSignedIn
    /\ activeSession = Null
    /\ \E w \in 1..Len(driveWrites) :
          \E i \in 1..Len(driveWrites[w].data.sessions) :
              /\ driveWrites[w].data.sessions[i].id \notin {SeedSession1.id, SeedSession2.id}
              /\ \E j \in 1..Len(appData.sessions) :
                    appData.sessions[j].id = driveWrites[w].data.sessions[i].id

\* C36: in the dataset in memory and in the dataset of every profile, no two
\* records of one list carry the same id
C36_IdsUniquePerList ==
    \A d \in {appData} \cup {profiles[i].appData : i \in 1..Len(profiles)} :
        \A k \in Kinds : UniqueIds(d[k])

\* nobody is logged in: no local profile is active and the user is not signed in
LoggedOut == activeLocalProfileId = 0 /\ ~isSignedIn

\* C37: a login gives the memory the dataset and the settings of the profile
\* logged in to, a logout gives it the empty dataset and the default
\* settings, and while nobody is logged in the memory holds nothing else
C37_ModeSwitchReplacesMemory ==
    /\ [][ \A u \in {"alice", "Alice"}, pw \in {"pw1", "wrong"} :
              (handleOfflineLogin(u, pw) /\ activeLocalProfileId' # 0)
                => /\ appData' = FindProfile(profiles', activeLocalProfileId').appData
                   /\ settings' = FindProfile(profiles', activeLocalProfileId').settings ]_vars
    /\ [][ handleLogOut => (appData' = EmptyData /\ settings' = DEFAULT_SETTINGS) ]_vars
    /\ [](LoggedOut => (appData = EmptyData /\ settings = DEFAULT_SETTINGS))

\* C38: when a manual sync that was started in cloud mode puts its result into
\* memory, every record the memory held just before, those added while the
\* sync was reading included, is still in memory
C38_SyncKeepsMutations ==
    [][ \A c \in BOOLEAN :
          (CloudMode /\ SnapshotOf(sync) # Null /\ ~sync.isInitialSync /\ SyncReadDone(c))
            => \A k \in Kinds : IdsOf(appData[k]) \subseteq IdsOf(appData'[k]) ]_vars

\* C39: while nobody is logged in, no session is active, so that a session
\* begun under one profile or account cannot be committed under another
C39_NoSessionWhenLoggedOut ==
    LoggedOut => activeSession = Null

=============================================================================
